---- MODULE Spec2Model ----
(***************************************************************************)
(* Live scoreboard score-update service (problem6): token-bucket rate      *)
(* limiter, action-proof validation with the action_nonces table, the      *)
(* score update transaction, the leaderboard cache and the broadcast.      *)
(*                                                                         *)
(* Every process p is one invocation.  task[p] names what was invoked:     *)
(*   "request"  POST /api/score/update, the whole flow of c4-diagram.md    *)
(*   "allow"    one TokenBucketRateLimiter.is_allowed call on one key      *)
(*   "verify"   one validate_action_proof call                             *)
(*   "submit"   validate_action_proof and then the transaction, the part   *)
(*              of a request that lies behind the middleware               *)
(*   "apply"    one score update transaction                               *)
(*   "load"     GET /api/scoreboard, the leaderboard read through the cache *)
(* Steps are split at the I/O points of the code (redis GET / SETEX, the   *)
(* SQL statements), so that concurrent invocations interleave there.       *)
(***************************************************************************)
EXTENDS Integers, Sequences, FiniteSets, TLC

VARIABLES
    now,        \* server clock, whole seconds
    buckets,    \* redis "bucket:{key}" -> bucket state or NoBucket
    nonces,     \* rows of table action_nonces
    score,      \* users.score by user id
    version,    \* row version of users, the optimistic lock
    history,    \* rows of table score_history, in insertion order
    incidents,  \* rows of table security_incidents
    cache,      \* redis "top_10_scores" or NoSnapshot
    events,     \* broadcasts sent to the WebSocket server, in order
    hub,        \* WebSocket server: per connection, its state and messages
    prisma,     \* users API: rows of table users, next id, faults so far
    initial,    \* the buckets as they were when the scenario started
    task,       \* what each process was invoked to do
    req,        \* the input of each process
    pc,         \* position of each process
    local,      \* local variables of each process
    outcome,    \* result returned by each process, or Pending
    calls,      \* number of invocations made so far by each process
    past,       \* per process: granted invocations so far, previous outcome
    effects     \* per process: the mutations its current invocation made

vars == <<now, buckets, nonces, score, version, history, incidents, cache, events,
          hub, prisma, initial, task, req, pc, local, outcome, calls, past, effects>>

\* ------------------------------------------------------------------------
\* Bounds of the model
\* ------------------------------------------------------------------------
\* concurrent requests to POST /api/score/update
NRequests == 2
\* WebSocket connections
NConnections == 2
\* concurrent callers of one component
NCallers == 3
\* requests that meet a fault of the cache or of the broadcast
MaxFaulty == 1
\* concurrent transactions on one user whose termination is checked
NRetriers == 2
\* rows of table users when the leaderboard queries are checked
NBoardUsers == 11
\* sum_to_n is called with n from -MaxN to MaxN
MaxN == 8
\* concurrent requests to the users API
NApiRequests == 2
\* queries of the users API that the database fails to serve
MaxDbFaults == 1
\* concurrent submitters of one proof
NSubmitters == 2
\* invocations one caller may make (the first one and its resubmissions)
MaxCalls == 3
\* is_allowed calls made one after the other by a single caller
MaxAllowCalls == 12
\* seconds that pass while that caller makes its calls
MaxElapsed == 8
\* the clock jumps that are explored, and the largest clock value
ShortWait == 30
MaxShortWaits == 2
MaxNow == 3740

\* ------------------------------------------------------------------------
\* Program constants
\* ------------------------------------------------------------------------
\* tokens are counted in sixths, so that every refill rate below is a whole
\* number of units per second (10 per minute = 1/6 token per second)
TokenUnit == 6
TokensRequested == 1
\* GLOBAL_LIMITS: 300 requests per minute per IP
IpPerMinute == 300
\* USER_GLOBAL_LIMITS: 60 requests per minute per user
UserPerMinute == 60
\* SCORE_UPDATE_LIMITS: 10 actions per minute, 3 seconds between actions
ActionsPerMinute == 10
MinIntervalSeconds == 3
\* retry_after of the four RateLimitExceeded raised by the middleware
RetryAfterIp == 60
RetryAfterUser == 60
RetryAfterAction == 30
RetryAfterInterval == 3
\* is_timestamp_fresh(proof.timestamp, max_age=30)
MaxAge == 30
\* DELETE FROM action_nonces WHERE created_at < NOW() - INTERVAL '1 hour'
\* (NonceRetentionShort: a retention shorter than the freshness window)
NonceRetentionShort == MaxAge \div 3
NonceRetention == 3600
\* retry budget of the score update transaction
MaxRetries == 3
\* LEADERBOARD_TTL = 60  # seconds
LeaderboardTTL == 60
\* LIMIT 10 of the leaderboard query
TopK == 10
\* clock at the start of the scenario
StartTime == 100

Min(a, b) == IF a <= b THEN a ELSE b
Max(a, b) == IF a >= b THEN a ELSE b
Abs(a) == IF a >= 0 THEN a ELSE 0 - a

Procs == 1..Max(Max(Max(NRequests, NCallers), Max(NSubmitters, NRetriers)), NApiRequests)
Users == {1, 2}
\* user id 3 has no row in table users
UnknownUser == 3
\* the one client address of the scenarios
ClientIp == 201
Ips == {ClientIp}
ActionTypes == {"puzzle_complete"}

Pending == [kind |-> "pending"]

\* ------------------------------------------------------------------------
\* TokenBucketRateLimiter
\* ------------------------------------------------------------------------
Layers == <<"ip_global", "user_global", "user_action", "action_interval">>

\* bucket_size and refill_rate (units per second) of each limiter
Limiter(layer) ==
    CASE layer = "ip_global" ->
            [bucket_size |-> IpPerMinute * TokenUnit,
             refill_rate |-> (IpPerMinute * TokenUnit) \div 60]
      [] layer = "user_global" ->
            [bucket_size |-> UserPerMinute * TokenUnit,
             refill_rate |-> (UserPerMinute * TokenUnit) \div 60]
      [] layer = "user_action" ->
            [bucket_size |-> ActionsPerMinute * TokenUnit,
             refill_rate |-> (ActionsPerMinute * TokenUnit) \div 60]
      [] layer = "action_interval" ->
            [bucket_size |-> TokenUnit,
             refill_rate |-> TokenUnit \div MinIntervalSeconds]

RetryAfter(layer) ==
    CASE layer = "ip_global" -> RetryAfterIp
      [] layer = "user_global" -> RetryAfterUser
      [] layer = "user_action" -> RetryAfterAction
      [] layer = "action_interval" -> RetryAfterInterval

\* get_rate_limit_keys: the key checked at a layer for a request
KeyOf(layer, r) ==
    CASE layer = "ip_global" -> <<layer, r.ip, "">>
      [] layer = "user_global" -> <<layer, r.user, "">>
      [] layer = "user_action" -> <<layer, r.user, r.proof.action_type>>
      [] layer = "action_interval" -> <<layer, r.user, "">>

AllKeys ==
    {<<"ip_global", i, "">> : i \in Ips}
    \cup {<<"user_global", u, "">> : u \in Users \cup {UnknownUser}}
    \cup {<<"user_action", u, a>> : u \in Users \cup {UnknownUser}, a \in ActionTypes}
    \cup {<<"action_interval", u, "">> : u \in Users \cup {UnknownUser}}

\* redis.get found no key
NoBucket == [tokens |-> -1, last_refill |-> -1]

\* is_allowed after the GET: refill, test, deduct.  b is the bucket read,
\* t the current_time taken at the start of the call.
\* (RefilledWholeTokens: the refill counted in whole tokens per unit)
RefilledWholeTokens(cfg, b, t) ==
    LET last_refill == IF b = NoBucket THEN t ELSE b.last_refill
        current_tokens == IF b = NoBucket THEN cfg.bucket_size ELSE b.tokens
        time_elapsed == t - last_refill
        tokens_to_add == time_elapsed * cfg.refill_rate * TokenUnit
    IN  Min(cfg.bucket_size, current_tokens + tokens_to_add)

Refilled(cfg, b, t) ==
    LET last_refill == IF b = NoBucket THEN t ELSE b.last_refill
        current_tokens == IF b = NoBucket THEN cfg.bucket_size ELSE b.tokens
        time_elapsed == t - last_refill
        tokens_to_add == time_elapsed * cfg.refill_rate
    IN  Min(cfg.bucket_size, current_tokens + tokens_to_add)

\* if current_tokens >= tokens_requested  (CanSatisfyStrict: with >)
CanSatisfyStrict(current_tokens) == current_tokens > TokensRequested * TokenUnit
CanSatisfy(current_tokens) == current_tokens >= TokensRequested * TokenUnit

IsAllowed(cfg, b, t) ==
    LET current_tokens == Refilled(cfg, b, t)
        allowed == CanSatisfy(current_tokens)
    IN  [allowed |-> allowed,
         bucket |-> [tokens |-> IF allowed
                                THEN current_tokens - TokensRequested * TokenUnit
                                ELSE current_tokens,
                     last_refill |-> t]]

\* ------------------------------------------------------------------------
\* Action proofs
\* ------------------------------------------------------------------------
\* the secret shared with a user's session
Secret(u) == 1000 + u

\* HMAC-SHA256 of the signed fields under a key: equal exactly when key and
\* fields are equal
Hmac(key, fields) == [key |-> key, msg |-> fields]

SignedFields(proof) ==
    <<proof.action_type, proof.timestamp, proof.expected_points, proof.nonce>>

GenerateHmac(proof, user_secret) == Hmac(user_secret, SignedFields(proof))

\* what a client builds: the fields, signed with the key it holds
MakeProof(a, ts, pts, n, key) ==
    LET body == [action_type |-> a, timestamp |-> ts,
                 expected_points |-> pts, nonce |-> n]
    IN  [action_type |-> a, timestamp |-> ts, expected_points |-> pts,
         nonce |-> n, client_signature |-> Hmac(key, SignedFields(body))]

\* "Ensure action is recent (< 30 seconds)"; the clock skew of a client may
\* put the timestamp on either side of the server clock
\* (IsTimestampFreshInclusive: an age of exactly max_age still counts as recent)
IsTimestampFreshInclusive(timestamp, t) == Abs(t - timestamp) <= MaxAge
IsTimestampFresh(timestamp, t) == Abs(t - timestamp) < MaxAge

\* SELECT from action_nonces
IsNonceUsed(nonce, user_id) ==
    \E row \in nonces : row.user_id = user_id /\ row.nonce = nonce

\* server-side table: largest plausible expected_points per action type
MaxPoints(action_type) ==
    CASE action_type = "puzzle_complete" -> 100
      [] OTHER -> 0

ValidateActionData(proof) ==
    /\ proof.action_type \in ActionTypes
    /\ proof.expected_points >= 0
    /\ proof.expected_points <= MaxPoints(proof.action_type)

\* ------------------------------------------------------------------------
\* Leaderboard queries
\* ------------------------------------------------------------------------
\* ORDER BY score DESC, id ASC
\* (BeforeIdDesc: equal scores ordered by id descending)
BeforeIdDesc(sc, u, v) == sc[u] > sc[v] \/ (sc[u] = sc[v] /\ u > v)
Before(sc, u, v) == sc[u] > sc[v] \/ (sc[u] = sc[v] /\ u < v)

RECURSIVE Ordered(_, _)
Ordered(sc, S) ==
    IF S = {} THEN <<>>
    ELSE LET first == CHOOSE u \in S : \A v \in S \ {u} : Before(sc, u, v)
         IN  <<[id |-> first, score |-> sc[first]]>> \o Ordered(sc, S \ {first})

\* SELECT ... ORDER BY score DESC, id ASC LIMIT 10
TopTen(sc) ==
    LET all == Ordered(sc, DOMAIN sc)
    IN  SubSeq(all, 1, Min(Len(all), TopK))

\* ROW_NUMBER() OVER (ORDER BY score DESC, id ASC) of one user
\* (RankOfDense: users with equal scores share a rank)
RankOfDense(sc, u) == 1 + Cardinality({v \in DOMAIN sc : sc[v] > sc[u]})
RankOf(sc, u) == 1 + Cardinality({v \in DOMAIN sc : Before(sc, v, u)})

NoSnapshot == [top_10 |-> <<>>, set_at |-> -1]

\* table users of the users API with its first row
FirstUser ==
    [id |-> 1, name |-> <<"A">>, email |-> <<"a", "@", "b", ".", "c">>, age |-> 30]
SeededUsers == [user |-> {FirstUser}, next_id |-> 2, faults |-> 0]

\* the WebSocket connections clients may open, none of them opened yet
Connections == 1..NConnections
\* since: the number of broadcasts published before the connection opened
NoConnections ==
    [c \in Connections |->
        [status |-> "new", since |-> 0, inbox |-> <<>>, received |-> <<>>]]

\* the user a connection authenticates as: user 1 opens two connections
ConnectionUser(c) == IF c <= Cardinality(Users) THEN 1 ELSE 2

\* the WebSocket server takes a broadcast: one message for every connection
\* of the pool
\* (FanoutPerUser: the pool keeps one connection for each user)
FanoutPerUser(h, event) ==
    [c \in Connections |->
        IF /\ h[c].status = "open"
           /\ \A d \in Connections :
                 h[d].status = "open" /\ ConnectionUser(d) = ConnectionUser(c) => d <= c
        THEN [h[c] EXCEPT !.inbox = Append(@, event)]
        ELSE h[c]]

Fanout(h, event) ==
    [c \in Connections |->
        IF h[c].status = "open" THEN [h[c] EXCEPT !.inbox = Append(@, event)]
        ELSE h[c]]

\* ------------------------------------------------------------------------
\* Processes
\* ------------------------------------------------------------------------
LocalInit(layer) ==
    [layer |-> layer, t |-> 0, bucket |-> NoBucket,
     rscore |-> 0, rversion |-> 0, attempts |-> 0,
     new_score |-> 0, topk |-> <<>>, downstream |-> FALSE]

\* where an invocation starts
Entry(tk) ==
    CASE tk = "request" -> "received"
      [] tk = "allow" -> "rl_time"
      [] tk = "verify" -> "v_check"
      [] tk = "submit" -> "v_check"
      [] tk = "apply" -> "txn_begin"
      [] tk = "load" -> "cache_get"

\* outcomes that count as granted
Granted == {"allowed", "Accepted", "applied", "success"}

Goto(p, where) == pc' = [pc EXCEPT ![p] = where]

\* the invocation returns res
Finish(p, res) ==
    /\ pc' = [pc EXCEPT ![p] = "done"]
    /\ outcome' = [outcome EXCEPT ![p] = res]
    /\ past' = [past EXCEPT ![p].granted =
                    IF res.kind \in Granted THEN @ + 1 ELSE @]

Effect(p, tag) == effects' = [effects EXCEPT ![p] = @ \cup {tag}]

\* --- authentication (c4-diagram steps 33-34, "Invalid JWT Token") --------
\* (AuthenticateLenient: the result of the token check is not looked at)
AuthenticateLenient(p) ==
    /\ pc[p] = "received"
    /\ Goto(p, "rl_time")
    /\ UNCHANGED <<now, buckets, nonces, score, version, history, incidents,
                   cache, events, hub, prisma, initial, task, req, local, outcome, calls,
                   past, effects>>
Authenticate(p) ==
    /\ pc[p] = "received"
    /\ IF req[p].token_valid
       THEN /\ Goto(p, "rl_time")
            /\ UNCHANGED <<outcome, past>>
       ELSE Finish(p, [kind |-> "Unauthenticated", status |-> 401])
    /\ UNCHANGED <<now, buckets, nonces, score, version, history, incidents, cache,
                   events, hub, prisma, initial, task, req, local, calls, effects>>

\* --- rate limiting -------------------------------------------------------
LayerOf(p) == Layers[local[p].layer]

\* current_time = time.time()
RLTime(p) ==
    /\ pc[p] = "rl_time"
    /\ local' = [local EXCEPT ![p].t = now]
    /\ Goto(p, "rl_get")
    /\ UNCHANGED <<now, buckets, nonces, score, version, history, incidents, cache,
                   events, hub, prisma, initial, task, req, outcome, calls, past, effects>>

\* bucket_data = self.redis.get(key)
RLGet(p) ==
    /\ pc[p] = "rl_get"
    /\ local' = [local EXCEPT ![p].bucket = buckets[KeyOf(LayerOf(p), req[p])]]
    /\ Goto(p, "rl_set")
    /\ UNCHANGED <<now, buckets, nonces, score, version, history, incidents, cache,
                   events, hub, prisma, initial, task, req, outcome, calls, past, effects>>

\* refill, test, deduct, self.redis.setex(key, ...); then the caller's branch:
\* a bare is_allowed call returns (allowed, current_tokens); the middleware
\* raises RateLimitExceeded or goes on to its next check
RLSet(p) ==
    /\ pc[p] = "rl_set"
    /\ LET layer == LayerOf(p)
           r == IsAllowed(Limiter(layer), local[p].bucket, local[p].t)
       IN  /\ buckets' = [buckets EXCEPT ![KeyOf(layer, req[p])] = r.bucket]
           /\ effects' = [effects EXCEPT ![p] =
                             @ \cup (IF r.allowed THEN {"bucket", "deduct"}
                                                  ELSE {"bucket"})]
           /\ IF task[p] = "allow"
              THEN /\ Finish(p, [kind |-> IF r.allowed THEN "allowed" ELSE "denied",
                                 current_tokens |-> r.bucket.tokens,
                                 t |-> local[p].t])
                   /\ UNCHANGED local
              ELSE IF ~r.allowed
              THEN /\ Finish(p, [kind |-> "RateLimited", status |-> 429,
                                 retry_after |-> RetryAfter(layer),
                                 layer |-> layer])
                   /\ UNCHANGED local
              ELSE IF local[p].layer < Len(Layers)
              THEN /\ local' = [local EXCEPT ![p].layer = @ + 1]
                   /\ Goto(p, "rl_time")
                   /\ UNCHANGED <<outcome, past>>
              ELSE /\ Goto(p, "v_check")
                   /\ UNCHANGED <<local, outcome, past>>
    /\ UNCHANGED <<now, nonces, score, version, history, incidents, cache, events, hub, prisma,
                   initial, task, req, calls>>

\* --- validate_action_proof -----------------------------------------------
\* a row of security_incidents
Incident(p, incident_type) ==
    [user_id |-> req[p].user, incident_type |-> incident_type,
     request |-> <<p, calls[p]>>]

\* (VCheckAudits: a bad signature is logged as a row of score_history)
VCheckAudits(p) ==
    /\ pc[p] = "v_check"
    /\ LET proof == req[p].proof
           user_id == req[p].user
       IN  IF ~IsTimestampFresh(proof.timestamp, now)
           THEN /\ Finish(p, [kind |-> "StaleProof", status |-> 400])
                /\ UNCHANGED history
           ELSE IF proof.client_signature # GenerateHmac(proof, Secret(user_id))
           THEN /\ Finish(p, [kind |-> "InvalidSignature", status |-> 403])
                /\ history' = Append(history,
                      [user_id |-> user_id, action_type |-> "malicious_proof",
                       points_added |-> 0, timestamp |-> now,
                       proof_signature |-> proof.client_signature,
                       request |-> <<p, calls[p]>>])
           ELSE IF IsNonceUsed(proof.nonce, user_id)
           THEN /\ Finish(p, [kind |-> "ReplayedProof", status |-> 409,
                              detected_by |-> "lookup"])
                /\ UNCHANGED history
           ELSE IF ~ValidateActionData(proof)
           THEN /\ Finish(p, [kind |-> "ImplausiblePoints", status |-> 422])
                /\ UNCHANGED history
           ELSE /\ Goto(p, "v_record")
                /\ UNCHANGED <<outcome, past, history>>
    /\ UNCHANGED <<now, buckets, nonces, score, version, incidents, cache,
                   events, hub, prisma, initial, task, req, local, calls, effects>>

\* (VCheckReplayFirst: the nonce is looked up before the signature is verified)
VCheckReplayFirst(p) ==
    /\ pc[p] = "v_check"
    /\ LET proof == req[p].proof
           user_id == req[p].user
       IN  IF ~IsTimestampFresh(proof.timestamp, now)
           THEN /\ Finish(p, [kind |-> "StaleProof", status |-> 400])
                /\ UNCHANGED incidents
           ELSE IF IsNonceUsed(proof.nonce, user_id)
           THEN /\ Finish(p, [kind |-> "ReplayedProof", status |-> 409,
                              detected_by |-> "lookup"])
                /\ UNCHANGED incidents
           ELSE IF proof.client_signature # GenerateHmac(proof, Secret(user_id))
           THEN /\ Finish(p, [kind |-> "InvalidSignature", status |-> 403])
                /\ incidents' = incidents \cup {Incident(p, "malicious_proof")}
           ELSE IF ~ValidateActionData(proof)
           THEN /\ Finish(p, [kind |-> "ImplausiblePoints", status |-> 422])
                /\ incidents' = incidents \cup {Incident(p, "score_manipulation")}
           ELSE /\ Goto(p, "v_record")
                /\ UNCHANGED <<outcome, past, incidents>>
    /\ UNCHANGED <<now, buckets, nonces, score, version, history, cache,
                   events, hub, prisma, initial, task, req, local, calls, effects>>

\* (VCheckRecordsFirst: the nonce is recorded as soon as the signature is
\* known to be good, before the lookup and the validation of the action)
VCheckRecordsFirst(p) ==
    /\ pc[p] = "v_check"
    /\ LET proof == req[p].proof
           user_id == req[p].user
       IN  IF ~IsTimestampFresh(proof.timestamp, now)
           THEN /\ Finish(p, [kind |-> "StaleProof", status |-> 400])
                /\ UNCHANGED <<incidents, nonces>>
           ELSE IF proof.client_signature # GenerateHmac(proof, Secret(user_id))
           THEN /\ Finish(p, [kind |-> "InvalidSignature", status |-> 403])
                /\ incidents' = incidents \cup {Incident(p, "malicious_proof")}
                /\ UNCHANGED nonces
           ELSE IF IsNonceUsed(proof.nonce, user_id)
           THEN /\ Finish(p, [kind |-> "ReplayedProof", status |-> 409,
                              detected_by |-> "lookup"])
                /\ UNCHANGED <<incidents, nonces>>
           ELSE IF ~ValidateActionData(proof)
           THEN /\ Finish(p, [kind |-> "ImplausiblePoints", status |-> 422])
                /\ incidents' = incidents \cup {Incident(p, "score_manipulation")}
                /\ nonces' = nonces \cup {[user_id |-> user_id, nonce |-> proof.nonce,
                                            created_at |-> now]}
           ELSE /\ Goto(p, "v_record")
                /\ UNCHANGED <<outcome, past, incidents, nonces>>
    /\ UNCHANGED <<now, buckets, score, version, history, cache,
                   events, hub, prisma, initial, task, req, local, calls, effects>>

\* the checks, in the order of the code; the nonce lookup is a read.  A bad
\* signature and implausible points are logged as security incidents.
VCheck(p) ==
    /\ pc[p] = "v_check"
    /\ LET proof == req[p].proof
           user_id == req[p].user
       IN  IF ~IsTimestampFresh(proof.timestamp, now)
           THEN /\ Finish(p, [kind |-> "StaleProof", status |-> 400])
                /\ UNCHANGED incidents
           ELSE IF proof.client_signature # GenerateHmac(proof, Secret(user_id))
           THEN /\ Finish(p, [kind |-> "InvalidSignature", status |-> 403])
                /\ incidents' = incidents \cup {Incident(p, "malicious_proof")}
           ELSE IF IsNonceUsed(proof.nonce, user_id)
           THEN /\ Finish(p, [kind |-> "ReplayedProof", status |-> 409,
                              detected_by |-> "lookup"])
                /\ UNCHANGED incidents
           ELSE IF ~ValidateActionData(proof)
           THEN /\ Finish(p, [kind |-> "ImplausiblePoints", status |-> 422])
                /\ incidents' = incidents \cup {Incident(p, "score_manipulation")}
           ELSE /\ Goto(p, "v_record")
                /\ UNCHANGED <<outcome, past, incidents>>
    /\ UNCHANGED <<now, buckets, nonces, score, version, history, cache,
                   events, hub, prisma, initial, task, req, local, calls, effects>>

\* INSERT INTO action_nonces under UNIQUE(user_id, nonce): the row is added
\* only if no row has the pair, and the insert reports which happened
\* (InsertNonceNoUnique: the table without the constraint)
InsertNonceNoUnique(rows, user_id, nonce, t) ==
    [inserted |-> TRUE,
     rows |-> rows \cup {[user_id |-> user_id, nonce |-> nonce, created_at |-> t]}]
InsertNonce(rows, user_id, nonce, t) ==
    IF \E row \in rows : row.user_id = user_id /\ row.nonce = nonce
    THEN [inserted |-> FALSE, rows |-> rows]
    ELSE [inserted |-> TRUE,
          rows |-> rows \cup {[user_id |-> user_id, nonce |-> nonce,
                               created_at |-> t]}]

\* the proof passed every check: its nonce is recorded before it is
\* accepted; losing the insert to a concurrent duplicate is a replay
VRecord(p) ==
    /\ pc[p] = "v_record"
    /\ LET ins == InsertNonce(nonces, req[p].user, req[p].proof.nonce, now)
       IN  /\ nonces' = ins.rows
           /\ IF ~ins.inserted
              THEN /\ Finish(p, [kind |-> "ReplayedProof", status |-> 409,
                                 detected_by |-> "insert"])
                   /\ UNCHANGED effects
              ELSE /\ Effect(p, "nonce")
                   /\ IF task[p] = "verify"
                      THEN Finish(p, [kind |-> "Accepted"])
                      ELSE /\ Goto(p, "txn_begin")
                           /\ UNCHANGED <<outcome, past>>
    /\ UNCHANGED <<now, buckets, score, version, history, incidents, cache, events, hub, prisma,
                   initial, task, req, local, calls>>

\* the hourly cleanup job of action_nonces
CleanupNonces ==
    /\ \E row \in nonces : row.created_at < now - NonceRetention
    /\ nonces' = {row \in nonces : ~(row.created_at < now - NonceRetention)}
    /\ UNCHANGED <<now, buckets, score, version, history, incidents, cache, events, hub, prisma,
                   initial, task, req, pc, local, outcome, calls, past, effects>>

\* --- score update transaction (c4-diagram phase 6) -----------------------
HistoryRow(p) ==
    [user_id |-> req[p].user,
     action_type |-> req[p].proof.action_type,
     points_added |-> req[p].proof.expected_points,
     timestamp |-> now,
     proof_signature |-> req[p].proof.client_signature,
     request |-> <<p, calls[p]>>]

\* BEGIN TRANSACTION and the read of the row ("fresh data")
TxnBegin(p) ==
    /\ pc[p] = "txn_begin"
    /\ IF req[p].user \notin DOMAIN score
       THEN /\ Finish(p, [kind |-> "NotFound", status |-> 404])
            /\ UNCHANGED local
       ELSE /\ local' = [local EXCEPT ![p].rscore = score[req[p].user],
                                      ![p].rversion = version[req[p].user]]
            /\ Goto(p, "txn_commit")
            /\ UNCHANGED <<outcome, past>>
    /\ UNCHANGED <<now, buckets, nonces, score, version, history, incidents, cache,
                   events, hub, prisma, initial, task, req, calls, effects>>

\* the optimistic lock: the write is valid if the row is as it was read
\* (RowUnchangedNoLock: the write is made whatever the row has become)
RowUnchangedNoLock(p) == TRUE
RowUnchanged(p) == version[req[p].user] = local[p].rversion

\* "Retry transaction with fresh data", within the retry budget
\* (RetryUncounted: the retries are not counted)
RetryUncounted(p) ==
    /\ Goto(p, "txn_begin")
    /\ UNCHANGED <<outcome, past, local>>
RetryOrGiveUp(p) ==
    IF local[p].attempts < MaxRetries
    THEN /\ local' = [local EXCEPT ![p].attempts = @ + 1]
         /\ Goto(p, "txn_begin")
         /\ UNCHANGED <<outcome, past>>
    ELSE /\ Finish(p, [kind |-> "ConcurrentConflict", status |-> 500])
         /\ UNCHANGED local

\* UPDATE users SET score, INSERT INTO score_history, COMMIT, all or nothing
TxnCommit(p) ==
    /\ pc[p] = "txn_commit"
    /\ IF RowUnchanged(p)
       THEN LET u == req[p].user
                new_score == local[p].rscore + req[p].proof.expected_points
            IN  /\ score' = [score EXCEPT ![u] = new_score]
                /\ version' = [version EXCEPT ![u] = @ + 1]
                /\ history' = Append(history, HistoryRow(p))
                /\ local' = [local EXCEPT ![p].new_score = new_score]
                /\ Effect(p, "score")
                /\ IF task[p] \in {"apply", "submit"}
                   THEN Finish(p, [kind |-> "applied", new_score |-> new_score])
                   ELSE /\ Goto(p, "cache_delete")
                        /\ UNCHANGED <<outcome, past>>
       ELSE /\ RetryOrGiveUp(p)
            /\ UNCHANGED <<score, version, history, effects>>
    /\ UNCHANGED <<now, buckets, nonces, incidents, cache, events, hub, prisma, initial,
                   task, req, calls>>

\* "Database Transaction Fails": rollback or timeout, nothing is written
\* (TxnFailsHalfWritten: the UPDATE stays although the INSERT failed)
TxnFailsHalfWritten(p) ==
    /\ pc[p] = "txn_commit"
    /\ score' = [score EXCEPT ![req[p].user] =
                    local[p].rscore + req[p].proof.expected_points]
    /\ version' = [version EXCEPT ![req[p].user] = @ + 1]
    /\ RetryOrGiveUp(p)
    /\ UNCHANGED <<now, buckets, nonces, history, incidents, cache,
                   events, hub, prisma, initial, task, req, calls, effects>>
TxnFails(p) ==
    /\ pc[p] = "txn_commit"
    /\ RetryOrGiveUp(p)
    /\ UNCHANGED <<now, buckets, nonces, score, version, history, incidents, cache,
                   events, hub, prisma, initial, task, req, calls, effects>>

\* the transaction times out at COMMIT: the commit took effect in the
\* database, the API server did not get the answer and treats the attempt
\* as a conflict
TxnTimesOut(p) ==
    /\ pc[p] = "txn_commit"
    /\ RowUnchanged(p)
    /\ LET u == req[p].user
       IN  /\ score' = [score EXCEPT ![u] = local[p].rscore + req[p].proof.expected_points]
           /\ version' = [version EXCEPT ![u] = @ + 1]
           /\ history' = Append(history, HistoryRow(p))
    /\ Effect(p, "score")
    /\ RetryOrGiveUp(p)
    /\ UNCHANGED <<now, buckets, nonces, incidents, cache, events, hub, prisma, initial,
                   task, req, calls>>

\* --- cache invalidation and refresh (phase 7) ----------------------------
\* DELETE "top_10_scores"
CacheDelete(p) ==
    /\ pc[p] = "cache_delete"
    /\ cache' = NoSnapshot
    /\ Effect(p, "cache_delete")
    /\ Goto(p, "cache_select")
    /\ UNCHANGED <<now, buckets, nonces, score, version, history, incidents, events, hub, prisma,
                   initial, task, req, local, outcome, calls, past>>

\* the cache is unreachable: logged, the request goes on
CacheDeleteFails(p) ==
    /\ pc[p] = "cache_delete"
    /\ local' = [local EXCEPT ![p].downstream = TRUE]
    /\ Goto(p, "cache_select")
    /\ UNCHANGED <<now, buckets, nonces, score, version, history, incidents, cache,
                   events, hub, prisma, initial, task, req, outcome, calls, past, effects>>

\* SELECT TOP 10 * FROM users ORDER BY score DESC
CacheSelect(p) ==
    /\ pc[p] = "cache_select"
    /\ local' = [local EXCEPT ![p].topk = TopTen(score)]
    /\ Goto(p, "cache_set")
    /\ UNCHANGED <<now, buckets, nonces, score, version, history, incidents, cache,
                   events, hub, prisma, initial, task, req, outcome, calls, past, effects>>

\* SET "top_10_scores" with new data
\* (CacheSetThenBroadcast: the broadcast follows at once, no response)
CacheSetThenBroadcast(p) ==
    /\ pc[p] = "cache_set"
    /\ cache' = [top_10 |-> local[p].topk, set_at |-> now]
    /\ Effect(p, "cache_set")
    /\ Goto(p, "broadcast")
    /\ UNCHANGED <<now, buckets, nonces, score, version, history, incidents, events, hub, prisma,
                   initial, task, req, local, outcome, calls, past>>

CacheSet(p) ==
    /\ pc[p] = "cache_set"
    /\ cache' = [top_10 |-> local[p].topk, set_at |-> now]
    /\ Effect(p, "cache_set")
    /\ Goto(p, "respond")
    /\ UNCHANGED <<now, buckets, nonces, score, version, history, incidents, events, hub, prisma,
                   initial, task, req, local, outcome, calls, past>>

CacheSetFails(p) ==
    /\ pc[p] = "cache_set"
    /\ local' = [local EXCEPT ![p].downstream = TRUE]
    /\ Goto(p, "respond")
    /\ UNCHANGED <<now, buckets, nonces, score, version, history, incidents, cache,
                   events, hub, prisma, initial, task, req, outcome, calls, past, effects>>

\* --- scoreboard load (phase 2) -------------------------------------------
\* the key is there and its TTL has not run out
\* (IsCachedLate: the key still counts when its age is the TTL)
IsCachedLate(c, t) == c # NoSnapshot /\ t - c.set_at <= LeaderboardTTL
IsCached(c, t) == c # NoSnapshot /\ t - c.set_at < LeaderboardTTL

\* 16. GET "top_10_scores": the cached leaderboard, or 17. cache miss (or
\* expired data)
CacheGet(p) ==
    /\ pc[p] = "cache_get"
    /\ IF IsCached(cache, now)
       THEN Finish(p, [kind |-> "hit", top_10 |-> cache.top_10,
                       set_at |-> cache.set_at, t |-> now])
       ELSE /\ Goto(p, "load_select")
            /\ UNCHANGED <<outcome, past>>
    /\ UNCHANGED <<now, buckets, nonces, score, version, history, incidents, cache,
                   events, hub, prisma, initial, task, req, local, calls, effects>>

\* 18. SELECT TOP 10 * FROM users ORDER BY score DESC
LoadSelect(p) ==
    /\ pc[p] = "load_select"
    /\ local' = [local EXCEPT ![p].topk = TopTen(score)]
    /\ Goto(p, "load_set")
    /\ UNCHANGED <<now, buckets, nonces, score, version, history, incidents, cache,
                   events, hub, prisma, initial, task, req, outcome, calls, past, effects>>

\* 20. SET "top_10_scores" (TTL: 60 seconds), 21. return the leaderboard
LoadSet(p) ==
    /\ pc[p] = "load_set"
    /\ cache' = [top_10 |-> local[p].topk, set_at |-> now]
    /\ Effect(p, "cache_set")
    /\ Finish(p, [kind |-> "loaded", top_10 |-> local[p].topk, t |-> now])
    /\ UNCHANGED <<now, buckets, nonces, score, version, history, incidents, events, hub, prisma,
                   initial, task, req, local, calls>>

\* --- response (phase 8) and broadcast (phase 9) --------------------------
\* (RespondReportsDownstream: a failed cache or broadcast call turns the
\* response into an error)
RespondReportsDownstream(p) ==
    /\ pc[p] = "respond"
    /\ outcome' = [outcome EXCEPT ![p] =
                      IF local[p].downstream
                      THEN [kind |-> "DownstreamUnavailable", status |-> 503]
                      ELSE [kind |-> "success", status |-> 200,
                            new_score |-> local[p].new_score,
                            new_rank |-> RankOf(score, req[p].user),
                            points_added |-> req[p].proof.expected_points]]
    /\ past' = past
    /\ Goto(p, "broadcast")
    /\ UNCHANGED <<now, buckets, nonces, score, version, history, incidents,
                   cache, events, hub, prisma, initial, task, req, local, calls, effects>>

\* HTTP 200 {success: true, new_score, new_rank}
Respond(p) ==
    /\ pc[p] = "respond"
    /\ outcome' = [outcome EXCEPT ![p] =
                      [kind |-> "success", status |-> 200,
                       new_score |-> local[p].new_score,
                       new_rank |-> RankOf(score, req[p].user),
                       points_added |-> req[p].proof.expected_points]]
    /\ past' = [past EXCEPT ![p].granted = @ + 1]
    /\ Goto(p, "broadcast")
    /\ UNCHANGED <<now, buckets, nonces, score, version, history, incidents, cache,
                   events, hub, prisma, initial, task, req, local, calls, effects>>

\* POST /broadcast/score-update
Broadcast(p) ==
    /\ pc[p] = "broadcast"
    /\ events' = Append(events,
                    [type |-> "score_update",
                     top_10 |-> local[p].topk,
                     updated_user |-> [id |-> req[p].user,
                                       score |-> local[p].new_score],
                     request |-> <<p, calls[p]>>])
    /\ hub' = Fanout(hub, events'[Len(events')])
    /\ Effect(p, "broadcast")
    /\ Goto(p, "done")
    /\ UNCHANGED <<now, buckets, nonces, score, version, history, incidents, cache, prisma,
                   initial, task, req, local, outcome, calls, past>>

BroadcastFails(p) ==
    /\ pc[p] = "broadcast"
    /\ local' = [local EXCEPT ![p].downstream = TRUE]
    /\ Goto(p, "done")
    /\ UNCHANGED <<now, buckets, nonces, score, version, history, incidents, cache,
                   events, hub, prisma, initial, task, req, outcome, calls, past, effects>>

\* --- the WebSocket server ------------------------------------------------
\* everything but the connections
ApiState == <<now, buckets, nonces, score, version, history, incidents, cache, events,
              prisma, initial, task, req, pc, local, outcome, calls, past, effects>>

\* Connect with JWT in headers ... Add user to connections pool
Connect(c) ==
    /\ hub[c].status = "new"
    /\ hub' = [hub EXCEPT ![c].status = "open", ![c].since = Len(events)]
    /\ UNCHANGED ApiState

\* a message waits for the connection longer than the server allows: the
\* connection is closed as unresponsive
Timeout(c) ==
    /\ hub[c].status = "open"
    /\ hub[c].inbox # <<>>
    /\ hub' = [hub EXCEPT ![c].status = "closed", ![c].inbox = <<>>]
    /\ UNCHANGED ApiState

\* the connection is lost
Disconnect(c) ==
    /\ hub[c].status = "open"
    /\ hub' = [hub EXCEPT ![c].status = "closed", ![c].inbox = <<>>]
    /\ UNCHANGED ApiState

Without(q, i) == SubSeq(q, 1, i - 1) \o SubSeq(q, i + 1, Len(q))

\* Emit "score_update" to one connected user: the oldest message waiting
\* for the connection (EmitAny: any message waiting for it; EmitInTurn: one
\* loop over the connections, which waits for each before the next)
EmitInTurn(c) ==
    /\ hub[c].status = "open"
    /\ hub[c].inbox # <<>>
    /\ \A d \in Connections : d < c => hub[d].inbox = <<>>
    /\ hub' = [hub EXCEPT ![c].received = Append(@, Head(hub[c].inbox)),
                         ![c].inbox = Tail(@)]
    /\ UNCHANGED ApiState

EmitAny(c) ==
    /\ hub[c].status = "open"
    /\ \E i \in 1..Len(hub[c].inbox) :
          hub' = [hub EXCEPT ![c].received = Append(@, hub[c].inbox[i]),
                             ![c].inbox = Without(@, i)]
    /\ UNCHANGED ApiState

Emit(c) ==
    /\ hub[c].status = "open"
    /\ hub[c].inbox # <<>>
    /\ hub' = [hub EXCEPT ![c].received = Append(@, Head(hub[c].inbox)),
                         ![c].inbox = Tail(@)]
    /\ UNCHANGED ApiState

\* --- the environment -----------------------------------------------------
CallLimit(tk) == IF tk = "allow" THEN MaxAllowCalls ELSE MaxCalls

\* the same input is submitted again by the same caller
Resubmit(p) ==
    /\ pc[p] = "done"
    /\ task[p] # "idle"
    /\ calls[p] < CallLimit(task[p])
    /\ calls' = [calls EXCEPT ![p] = @ + 1]
    /\ pc' = [pc EXCEPT ![p] = Entry(task[p])]
    /\ local' = [local EXCEPT ![p] = LocalInit(req[p].layer)]
    /\ past' = [past EXCEPT ![p].last = outcome[p]]
    /\ outcome' = [outcome EXCEPT ![p] = Pending]
    /\ effects' = [effects EXCEPT ![p] = {}]
    /\ UNCHANGED <<now, buckets, nonces, score, version, history, incidents, cache,
                   events, hub, prisma, initial, task, req>>

\* the user's next action: a new proof, made and signed now
SubmitNext(p) ==
    /\ pc[p] = "done"
    /\ task[p] = "request"
    /\ calls[p] < MaxAllowCalls
    /\ calls' = [calls EXCEPT ![p] = @ + 1]
    /\ req' = [req EXCEPT ![p].proof =
                  MakeProof("puzzle_complete", now, 50, calls[p] + 1,
                            Secret(req[p].user))]
    /\ pc' = [pc EXCEPT ![p] = Entry(task[p])]
    /\ local' = [local EXCEPT ![p] = LocalInit(req[p].layer)]
    /\ past' = [past EXCEPT ![p].last = outcome[p]]
    /\ outcome' = [outcome EXCEPT ![p] = Pending]
    /\ effects' = [effects EXCEPT ![p] = {}]
    /\ UNCHANGED <<now, buckets, nonces, score, version, history, incidents, cache,
                   events, hub, prisma, initial, task>>

\* one second passes
Tick ==
    /\ now < StartTime + MaxElapsed
    /\ now' = now + 1
    /\ UNCHANGED <<buckets, nonces, score, version, history, incidents, cache, events, hub, prisma,
                   initial, task, req, pc, local, outcome, calls, past, effects>>

\* a second passes between two requests, while none is being handled
Pause ==
    /\ \A p \in Procs : pc[p] = "done"
    /\ now < StartTime + MaxElapsed
    /\ now' = now + 1
    /\ UNCHANGED <<buckets, nonces, score, version, history, incidents, cache, events, hub, prisma,
                   initial, task, req, pc, local, outcome, calls, past, effects>>

\* a longer time passes: a short wait (a few of them at most), or the nonce
\* retention, or the retention and one second.  A request is answered or
\* timed out long before an hour has passed: the long waits fall between
\* invocations.
Waits == {ShortWait, NonceRetention, NonceRetention + 1}

Elapse(d) ==
    /\ d \in Waits
    /\ d = ShortWait => now + d <= StartTime + MaxShortWaits * ShortWait
    /\ d # ShortWait => \A p \in Procs : pc[p] = "done"
    /\ now + d <= MaxNow
    /\ now' = now + d
    /\ UNCHANGED <<buckets, nonces, score, version, history, incidents, cache, events, hub, prisma,
                   initial, task, req, pc, local, outcome, calls, past, effects>>

\* ------------------------------------------------------------------------
\* Initial states
\* ------------------------------------------------------------------------
\* users.score of the two users when the scenario starts
InitialScore == [u \in Users |-> IF u = 1 THEN 100 ELSE 50]

Input(user, token_valid, proof, layer) ==
    [user |-> user, ip |-> ClientIp, token_valid |-> token_valid,
     proof |-> proof, layer |-> layer]

Good(u, n) == MakeProof("puzzle_complete", StartTime, 50, n, Secret(u))
Stale(u, n) == MakeProof("puzzle_complete", StartTime - 45, 50, n, Secret(u))
Forged(u, n) == MakeProof("puzzle_complete", StartTime, 50, n, Secret(u) + 7)
Greedy(u, n) == MakeProof("puzzle_complete", StartTime, 5000, n, Secret(u))
Negative(u, n) == MakeProof("puzzle_complete", StartTime, 0 - 50, n, Secret(u))

InitStore ==
    /\ now = StartTime
    /\ nonces = {}
    /\ score = InitialScore
    /\ version = [u \in Users |-> 0]
    /\ history = <<>>
    /\ incidents = {}
    /\ cache = NoSnapshot
    /\ events = <<>>
    /\ hub = NoConnections
    /\ prisma = SeededUsers

InitProcs ==
    /\ pc = [p \in Procs |-> IF task[p] = "idle" THEN "done" ELSE Entry(task[p])]
    /\ local = [p \in Procs |-> LocalInit(req[p].layer)]
    /\ outcome = [p \in Procs |-> Pending]
    /\ calls = [p \in Procs |-> 1]
    /\ past = [p \in Procs |-> [granted |-> 0, last |-> Pending]]
    /\ effects = [p \in Procs |-> {}]

AllAbsent == [k \in AllKeys |-> NoBucket]

\* a bucket left by earlier traffic: no token, or exactly one
Drained == [tokens |-> 0, last_refill |-> StartTime]
OneLeft == [tokens |-> TokenUnit, last_refill |-> StartTime]

\* the buckets of user 1 and of the client's address when the requests
\* arrive: none yet, one token left for the address, or one layer drained
IpOneLeft ==
    [AllAbsent EXCEPT ![KeyOf("ip_global", Input(1, TRUE, Good(1, 1), 1))] = OneLeft]
BucketMenu ==
    {AllAbsent, IpOneLeft}
    \cup {[AllAbsent EXCEPT ![KeyOf(Layers[i], Input(1, TRUE, Good(1, 1), 1))] = Drained] :
            i \in 1..Len(Layers)}

\* request 1 and the buckets it meets: a good request with every bucket
\* state, and each thing that can be wrong with a request
Scenarios ==
    {<<Input(1, TRUE, Good(1, 1), 1), b>> : b \in BucketMenu}
    \cup {<<Input(1, FALSE, Good(1, 1), 1), AllAbsent>>,
          <<Input(2, TRUE, Good(2, 1), 1), AllAbsent>>,
          <<Input(1, TRUE, Forged(1, 1), 1), IpOneLeft>>}
    \cup {<<Input(1, TRUE, pr, 1), AllAbsent>> :
            pr \in {Stale(1, 1), Forged(1, 1), Greedy(1, 1)}}

\* what the other requests submit while request 1 is handled
BackgroundMenu == {Input(2, TRUE, Good(2, 1), 1)}

Idle == Input(1, FALSE, Good(1, 1), 1)

Tasks(tk, n) == [p \in Procs |-> IF p <= n THEN tk ELSE "idle"]

\* --- requests, each with what can be wrong with it -------------------------
Init ==
    /\ InitStore
    /\ task = Tasks("request", NRequests)
    /\ \E sc \in Scenarios, other \in BackgroundMenu :
          /\ req = [p \in Procs |-> IF p = 1 THEN sc[1]
                                    ELSE IF p <= NRequests THEN other ELSE Idle]
          /\ buckets = sc[2]
    /\ initial = buckets
    /\ InitProcs

Step(p) ==
    \/ Authenticate(p)
    \/ RLTime(p)
    \/ RLGet(p)
    \/ RLSet(p)
    \/ VCheck(p)
    \/ VRecord(p)
    \/ TxnBegin(p)
    \/ TxnCommit(p)
    \/ CacheDelete(p)
    \/ CacheSelect(p)
    \/ CacheSet(p)
    \/ Respond(p)
    \/ Broadcast(p)

Next == \E p \in Procs : Step(p)

Spec == Init /\ [][Next]_vars

\* --- valid requests, with faults -----------------------------
\* a cache or a broadcast that cannot be reached
Fault(p) ==
    /\ \/ local[p].downstream
       \/ Cardinality({q \in Procs : local[q].downstream}) < MaxFaulty
    /\ \/ CacheDeleteFails(p)
       \/ CacheSetFails(p)
       \/ BroadcastFails(p)

InitFaulty ==
    /\ InitStore
    /\ task = Tasks("request", NRequests)
    /\ \E other \in BackgroundMenu :
          req = [p \in Procs |-> IF p = 1 THEN Input(1, TRUE, Good(1, 1), 1)
                                 ELSE IF p <= NRequests THEN other ELSE Idle]
    /\ buckets = AllAbsent
    /\ initial = buckets
    /\ InitProcs

NextFaulty == \E p \in Procs : Step(p) \/ Fault(p)

SpecFaulty == InitFaulty /\ [][NextFaulty]_vars

\* --- concurrent score update transactions ----------------------------------
\* every caller adds its own amount, so that a sum tells which were applied
Delta(p) == 10 * (2 ^ (p - 1))

ApplyInput(p, u) ==
    Input(u, TRUE, MakeProof("puzzle_complete", StartTime, Delta(p), p, Secret(u)), 1)

InitStoreCalls ==
    /\ InitStore
    /\ task = Tasks("apply", NCallers)
    /\ \E last \in Users \cup {UnknownUser} :
          req = [p \in Procs |-> IF p < NCallers THEN ApplyInput(p, 1)
                                 ELSE IF p = NCallers THEN ApplyInput(p, last)
                                 ELSE Idle]
    /\ buckets = AllAbsent
    /\ initial = buckets
    /\ InitProcs

NextStore == \E p \in Procs : TxnBegin(p) \/ TxnCommit(p) \/ TxnFails(p)

SpecStore == InitStoreCalls /\ [][NextStore]_vars

\* the same, each transaction being given its turn as long as it is not over
InitStoreLive ==
    /\ InitStore
    /\ task = Tasks("apply", NRetriers)
    /\ req = [p \in Procs |-> IF p <= NRetriers THEN ApplyInput(p, 1) ELSE Idle]
    /\ buckets = AllAbsent
    /\ initial = buckets
    /\ InitProcs

SpecStoreLive == InitStoreLive /\ [][NextStore]_vars /\ WF_vars(NextStore)

\* --- everything that reads or writes the scores, at the same time ------------
InitScores ==
    /\ InitStore
    /\ task = [p \in Procs |-> IF p = 1 THEN "request"
                               ELSE IF p = 2 THEN "request"
                               ELSE IF p = 3 THEN "load" ELSE "idle"]
    /\ \E pr \in {Good(1, 1), Greedy(1, 1), Negative(1, 1), Forged(1, 1)},
          u \in Users :
          req = [p \in Procs |-> IF p = 1 THEN Input(1, TRUE, pr, 1)
                                 ELSE IF p = 2 THEN Input(u, TRUE, Good(u, 2), 1)
                                 ELSE Idle]
    /\ buckets = AllAbsent
    /\ initial = buckets
    /\ InitProcs

NextScores ==
    \/ \E p \in Procs : Step(p) \/ TxnFails(p)
    \/ \E p \in Procs : CacheGet(p) \/ LoadSelect(p) \/ LoadSet(p)

SpecScores == InitScores /\ [][NextScores]_vars

\* --- transactions that can time out at COMMIT --------------------------------
InitTimeout ==
    /\ InitStore
    /\ task = Tasks("apply", NRetriers)
    /\ req = [p \in Procs |-> IF p <= NRetriers THEN ApplyInput(p, 1) ELSE Idle]
    /\ buckets = AllAbsent
    /\ initial = buckets
    /\ InitProcs

NextTimeout == \E p \in Procs : TxnBegin(p) \/ TxnCommit(p) \/ TxnTimesOut(p)

SpecTimeout == InitTimeout /\ [][NextTimeout]_vars

\* --- one proof submitted by several callers, again and again ---------------
VerifyMenu ==
    {MakeProof("puzzle_complete", ts, 50, 1, Secret(1)) :
        ts \in {StartTime - (MaxAge - 1), StartTime, StartTime + (MaxAge - 1)}}

InitReplay ==
    /\ InitStore
    /\ task = Tasks("submit", NSubmitters)
    /\ \E pr \in VerifyMenu :
          req = [p \in Procs |-> IF p <= NSubmitters THEN Input(1, TRUE, pr, 1) ELSE Idle]
    /\ buckets = AllAbsent
    /\ initial = buckets
    /\ InitProcs

NextReplay ==
    \/ \E p \in Procs : VCheck(p) \/ VRecord(p) \/ TxnBegin(p) \/ TxnCommit(p)
                         \/ Resubmit(p)
    \/ CleanupNonces
    \/ \E d \in Waits : Elapse(d)

SpecReplay == InitReplay /\ [][NextReplay]_vars

\* --- concurrent is_allowed calls on one key --------------------------------
ActionKey == KeyOf("user_action", Idle)
TwoLeft == [tokens |-> 2 * TokenUnit, last_refill |-> StartTime]

InitAllow ==
    /\ InitStore
    /\ task = Tasks("allow", NCallers)
    /\ req = [p \in Procs |-> Input(1, TRUE, Good(1, 1), 3)]
    /\ \E b \in {NoBucket, Drained, OneLeft, TwoLeft} :
          buckets = [AllAbsent EXCEPT ![ActionKey] = b]
    /\ initial = buckets
    /\ InitProcs

NextAllow == \E p \in Procs : RLTime(p) \/ RLGet(p) \/ RLSet(p)

SpecAllow == InitAllow /\ [][NextAllow]_vars

\* --- concurrent is_allowed calls on one key, each with its own current_time --
InitAllowTimed ==
    /\ InitStore
    /\ task = Tasks("allow", NRetriers)
    /\ \E layer \in {4}, b \in {NoBucket, Drained, OneLeft} :
          /\ req = [p \in Procs |-> Input(1, TRUE, Good(1, 1), layer)]
          /\ buckets = [AllAbsent EXCEPT ![KeyOf(Layers[layer], Idle)] = b]
    /\ initial = buckets
    /\ InitProcs

NextAllowTimed ==
    \/ \E p \in Procs : RLTime(p) \/ RLGet(p) \/ RLSet(p)
    \/ Tick

SpecAllowTimed == InitAllowTimed /\ [][NextAllowTimed]_vars

\* --- is_allowed called again and again by one caller -----------------------
InitAllowSeq ==
    /\ InitStore
    /\ task = Tasks("allow", 1)
    /\ \E layer \in {3, 4} :
          req = [p \in Procs |-> Input(1, TRUE, Good(1, 1), layer)]
    /\ buckets = AllAbsent
    /\ initial = buckets
    /\ InitProcs

NextAllowSeq ==
    \/ \E p \in Procs : RLTime(p) \/ RLGet(p) \/ RLSet(p) \/ Resubmit(p)
    \/ Tick

SpecAllowSeq == InitAllowSeq /\ [][NextAllowSeq]_vars

\* --- one user submitting one action after the other ------------------------
InitMinute ==
    /\ InitStore
    /\ task = Tasks("request", 1)
    /\ req = [p \in Procs |-> Input(1, TRUE, Good(1, 1), 1)]
    /\ buckets = AllAbsent
    /\ initial = buckets
    /\ InitProcs

NextMinute ==
    \/ \E p \in Procs : Step(p) \/ SubmitNext(p)
    \/ Pause

SpecMinute == InitMinute /\ [][NextMinute]_vars

\* --- a score update and a client that loads the scoreboard now and then ----
InitCache ==
    /\ InitStore
    /\ task = [p \in Procs |-> IF p = 1 THEN "request"
                               ELSE IF p = 2 THEN "load" ELSE "idle"]
    /\ req = [p \in Procs |-> IF p = 1 THEN Input(1, TRUE, Good(1, 1), 1)
                              ELSE IF p = 2 THEN Input(2, TRUE, Good(2, 1), 1)
                              ELSE Idle]
    /\ buckets = AllAbsent
    /\ initial = buckets
    /\ InitProcs

NextCache ==
    \/ \E p \in Procs : Step(p)
    \/ \E p \in Procs : CacheGet(p) \/ LoadSelect(p) \/ LoadSet(p)
    \/ \E p \in Procs : task[p] = "load" /\ Resubmit(p)
    \/ Elapse(ShortWait)

SpecCache == InitCache /\ [][NextCache]_vars

\* --- one score update on a table of more than ten users --------------------
BoardUsers == 1..NBoardUsers
BoardScores == {50, 100}
\* the user that sends the score update, and its score before the update
BoardRequester == 2
RequesterScores == {0, 50}

InitBoard ==
    /\ now = StartTime
    /\ nonces = {}
    /\ \E own \in RequesterScores, rest \in [BoardUsers \ {BoardRequester} -> BoardScores] :
          score = [u \in BoardUsers |-> IF u = BoardRequester THEN own ELSE rest[u]]
    /\ version = [u \in BoardUsers |-> 0]
    /\ history = <<>>
    /\ incidents = {}
    /\ cache = NoSnapshot
    /\ events = <<>>
    /\ hub = NoConnections
    /\ prisma = SeededUsers
    /\ task = Tasks("request", 1)
    /\ req = [p \in Procs |-> IF p = 1 THEN Input(BoardRequester, TRUE, Good(BoardRequester, 1), 1)
                                ELSE Idle]
    /\ buckets = AllAbsent
    /\ initial = buckets
    /\ InitProcs

SpecBoard == InitBoard /\ [][Next]_vars

\* --- validate_action_proof called with timestamps around the limit --------
\* seconds between the server clock and the timestamp of the proof
SkewMenu == {0 - (MaxAge + 1), 0 - MaxAge, 0 - (MaxAge - 1), 0,
             MaxAge - 1, MaxAge, MaxAge + 1}

InitFresh ==
    /\ InitStore
    /\ task = Tasks("verify", 1)
    /\ \E d \in SkewMenu :
          req = [p \in Procs |->
                    Input(1, TRUE,
                          MakeProof("puzzle_complete", StartTime + d, 50, 1, Secret(1)),
                          1)]
    /\ buckets = AllAbsent
    /\ initial = buckets
    /\ InitProcs

NextFresh ==
    \/ \E p \in Procs : VCheck(p) \/ VRecord(p) \/ Resubmit(p)
    \/ Tick

SpecFresh == InitFresh /\ [][NextFresh]_vars

\* --- requests whose transaction can fail, submitted again after the answer ---
InitApplyFails ==
    /\ InitStore
    /\ task = Tasks("request", 1)
    /\ \E u \in {1, UnknownUser} :
          req = [p \in Procs |-> IF p = 1 THEN Input(u, TRUE, Good(u, 1), 1) ELSE Idle]
    /\ buckets = AllAbsent
    /\ initial = buckets
    /\ InitProcs

NextApplyFails ==
    \/ \E p \in Procs : Step(p) \/ TxnFails(p) \/ Resubmit(p)
    \/ Pause

SpecApplyFails == InitApplyFails /\ [][NextApplyFails]_vars

\* --- Verify called with each kind of proof, by several callers ---------------
ProofMenu ==
    {MakeProof("puzzle_complete", ts, pts, 1, key) :
        ts \in {StartTime, StartTime - 45},
        pts \in {50, 5000},
        key \in {Secret(1), Secret(1) + 7}}

InitVerify ==
    /\ InitStore
    /\ task = Tasks("verify", NSubmitters)
    /\ \E first \in ProofMenu, other \in {Good(1, 1), Greedy(1, 1)} :
          req = [p \in Procs |-> Input(1, TRUE, IF p = 1 THEN first ELSE other, 1)]
    /\ buckets = AllAbsent
    /\ initial = buckets
    /\ InitProcs

NextVerify == \E p \in Procs : VCheck(p) \/ VRecord(p) \/ Resubmit(p)

SpecVerify == InitVerify /\ [][NextVerify]_vars

\* ------------------------------------------------------------------------
\* Properties
\* ------------------------------------------------------------------------
RECURSIVE SumOver(_, _)
\* sum of f[x] over the finite set S
SumOver(f, S) ==
    IF S = {} THEN 0
    ELSE LET x == CHOOSE y \in S : TRUE IN f[x] + SumOver(f, S \ {x})

\* the invocations of a process that have returned: all earlier ones, and
\* the current one when it has its outcome
NReturned(p) ==
    IF task[p] = "idle" THEN 0
    ELSE (calls[p] - 1) + (IF outcome[p] # Pending THEN 1 ELSE 0)

\* the points of the rows of score_history of one user
HistoryPoints(u) ==
    SumOver([i \in 1..Len(history) |-> history[i].points_added],
            {i \in 1..Len(history) : history[i].user_id = u})

\* the nonce and the timestamp of the proof a row of score_history was
\* written for: both are among the fields its proof_signature signs
RowTimestamp(row) == row.proof_signature.msg[2]
RowNonce(row) == row.proof_signature.msg[4]

\* the points of the calls on one user that returned success
AppliedPoints(u) ==
    SumOver([p \in Procs |-> req[p].proof.expected_points],
            {p \in Procs : /\ req[p].user = u
                           /\ outcome[p].kind \in {"applied", "success"}})

\* C1: whatever the interleaving of concurrent score update transactions on
\* one user, retried conflicts included, the user's score minus its initial
\* score is the sum of the deltas of the calls that returned success, and
\* the sum of the points of the user's rows of score_history.
C1_NoLostNoDoubleUpdate ==
    \A u \in Users :
        /\ score[u] - InitialScore[u] = AppliedPoints(u)
        /\ score[u] - InitialScore[u] = HistoryPoints(u)

\* two calls on user 1 were applied, one of them after a retried conflict,
\* and a third call gave up
C1_Witness ==
    /\ \A p \in Procs : pc[p] = "done"
    /\ \E p, q \in Procs :
          /\ p # q
          /\ req[p].user = 1 /\ req[q].user = 1
          /\ outcome[p].kind = "applied" /\ outcome[q].kind = "applied"
          /\ local[q].attempts > 0
    /\ \E p \in Procs : outcome[p].kind = "ConcurrentConflict"

\* the submitters of the one proof of this scenario
Submitters == {p \in Procs : task[p] = "submit"}
TotalGranted == SumOver([p \in Procs |-> past[p].granted], Procs)

\* C2: the same proof (same user, same nonce, valid signature, fresh
\* timestamp) submitted by several callers at once, or again after it was
\* answered: while its timestamp is fresh, once every submission has been
\* answered exactly one was accepted and applied, every other one was
\* rejected with ReplayedProof, and the score rose by expected_points once.
C2_OneAcceptancePerProof ==
    LET proof == req[1].proof
    IN  IsTimestampFresh(proof.timestamp, now) =>
          /\ TotalGranted <= 1
          /\ score[1] - InitialScore[1] = Len(history) * proof.expected_points
          /\ \A p \in Submitters :
                /\ outcome[p].kind \in {"pending", "applied", "ReplayedProof"}
                /\ past[p].last.kind \in {"pending", "applied", "ReplayedProof"}
          /\ (\A p \in Submitters : pc[p] = "done") =>
                /\ TotalGranted = 1
                /\ Len(history) = 1
                /\ score[1] - InitialScore[1] = proof.expected_points

\* two concurrent submissions both passed the nonce lookup; the one that
\* lost the insert was answered ReplayedProof, the other one was applied
C2_Witness ==
    /\ IsTimestampFresh(req[1].proof.timestamp, now)
    /\ \A p \in Submitters : pc[p] = "done"
    /\ \E p, q \in Submitters :
          /\ outcome[p].kind = "applied"
          /\ outcome[q].kind = "ReplayedProof"
          /\ outcome[q].detected_by = "insert"

\* C3: no two rows of score_history of one user were written for the same
\* nonce, also after the cleanup job has deleted nonces: a nonce whose row
\* was deleted belongs to a proof that is no longer fresh, so that its
\* resubmission is answered StaleProof.
C3_NoNonceReuse ==
    /\ \A i, j \in 1..Len(history) :
          (i < j /\ history[i].user_id = history[j].user_id)
             => RowNonce(history[i]) # RowNonce(history[j])
    /\ \A i \in 1..Len(history) :
          \/ IsNonceUsed(RowNonce(history[i]), history[i].user_id)
          \/ ~IsTimestampFresh(RowTimestamp(history[i]), now)

\* the nonce of an applied proof was deleted by the cleanup job, and the
\* proof, submitted again, was answered StaleProof
C3_Witness ==
    /\ Len(history) = 1
    /\ nonces = {}
    /\ \E p \in Submitters : calls[p] > 1 /\ outcome[p].kind = "StaleProof"

\* the rows of score_history and the broadcasts made for the current
\* invocation of a process
RowsOf(p) == {i \in 1..Len(history) : history[i].request = <<p, calls[p]>>}
EventsOf(p) == {i \in 1..Len(events) : events[i].request = <<p, calls[p]>>}
Requests == {p \in Procs : task[p] = "request"}
StoreMatchesHistory ==
    \A u \in Users : score[u] - InitialScore[u] = HistoryPoints(u)

\* C4: once the transaction of a request has committed, a cache delete, a
\* cache set or a broadcast that fails rolls nothing back (the row of
\* score_history stays, the score keeps the increment) and the request is
\* answered with success.
C4_CommittedStaysSuccess ==
    \A p \in Requests :
        "score" \in effects[p] =>
            /\ Cardinality(RowsOf(p)) = 1
            /\ score[req[p].user] >= local[p].new_score
            /\ StoreMatchesHistory
            /\ outcome[p].kind \in {"pending", "success"}
            /\ pc[p] \in {"broadcast", "done"} =>
                  /\ outcome[p].kind = "success"
                  /\ outcome[p].new_score = local[p].new_score

\* a request whose cache delete, cache set and broadcast all failed after
\* its commit is done, answered with success, with its row in the history
C4_Witness ==
    \E p \in Requests :
        /\ pc[p] = "done"
        /\ local[p].downstream
        /\ effects[p] \cap {"cache_delete", "cache_set", "broadcast"} = {}
        /\ outcome[p].kind = "success"
        /\ RowsOf(p) # {}

ValidationRejections ==
    {"RateLimited", "StaleProof", "InvalidSignature", "ReplayedProof",
     "ImplausiblePoints"}

\* C5: a request rejected by the rate limiting or by the proof validation
\* has written nothing but rate limiter buckets: no score, no row of
\* score_history, no cache delete or set, no broadcast.
C5_RejectionLeavesStoreAlone ==
    /\ StoreMatchesHistory
    /\ \A p \in Requests :
          outcome[p].kind \in ValidationRejections =>
              /\ effects[p] \subseteq {"bucket", "deduct"}
              /\ RowsOf(p) = {}
              /\ EventsOf(p) = {}

\* one request was rejected for its signature and another one by the rate
\* limiter
C5_Witness ==
    \E p, q \in Requests :
        /\ outcome[p].kind = "InvalidSignature"
        /\ outcome[q].kind = "RateLimited"

\* the rate limiter keys of a request
KeysOf(p) == {KeyOf(Layers[i], req[p]) : i \in 2..Len(Layers)}

\* C6: a request whose token is invalid is answered Unauthenticated at once:
\* it touches no bucket, records no nonce, writes nothing to the store and
\* broadcasts nothing.
C6_InvalidTokenStopsFirst ==
    \A p \in Requests :
        ~req[p].token_valid =>
            /\ pc[p] \in {"received", "done"}
            /\ outcome[p].kind \in {"pending", "Unauthenticated"}
            /\ effects[p] = {}
            /\ \A k \in KeysOf(p) : buckets[k] = initial[k]
            /\ \A row \in nonces : row.user_id # req[p].user
            /\ score[req[p].user] = InitialScore[req[p].user]
            /\ RowsOf(p) = {} /\ EventsOf(p) = {}

\* a request with an invalid token was answered Unauthenticated while
\* another request went through
C6_Witness ==
    \E p, q \in Requests :
        /\ ~req[p].token_valid
        /\ outcome[p].kind = "Unauthenticated"
        /\ outcome[q].kind = "success"

\* whole tokens a bucket holds
WholeTokens(layer, b) ==
    (IF b = NoBucket THEN Limiter(layer).bucket_size ELSE b.tokens) \div TokenUnit

\* C7: with no time elapsing, of any number of concurrent is_allowed calls
\* on one key at most as many return true as the bucket held whole tokens,
\* and no stored token count is below zero.
C7_AtMostKAllowed ==
    /\ now = StartTime =>
          Cardinality({p \in Procs : task[p] = "allow"
                                     /\ outcome[p].kind = "allowed"})
             <= WholeTokens("user_action", initial[ActionKey])
    /\ \A k \in AllKeys : buckets[k] = NoBucket \/ buckets[k].tokens >= 0

\* C8: a request that the rate limiting rejects has deducted no token from
\* any bucket, and a request that passed it has deducted one from each.
C8_AllOrNothing ==
    \A p \in Requests :
        /\ outcome[p].kind = "RateLimited" => "deduct" \notin effects[p]
        /\ (req[p].token_valid /\ pc[p] \notin {"received", "rl_time", "rl_get", "rl_set"}
               /\ outcome[p].kind # "RateLimited") => "deduct" \in effects[p]

\* seconds in which one token is refilled
SecondsPerToken(layer) == TokenUnit \div Limiter(layer).refill_rate

\* the request is the eleventh of its user and has been answered
EleventhAnswered(p) ==
    /\ task[p] = "request"
    /\ calls[p] = ActionsPerMinute + 1
    /\ outcome[p] # Pending

RejectedByRateLimit(p) ==
    /\ outcome[p].kind = "RateLimited"
    /\ outcome[p].retry_after > 0
    /\ effects[p] \subseteq {"bucket", "deduct"}
    /\ ~IsNonceUsed(req[p].proof.nonce, req[p].user)
    /\ RowsOf(p) = {}

Capacity(layer) == Limiter(layer).bucket_size \div TokenUnit

\* C10: is_allowed called again and again on one key by one caller.  With no
\* time elapsed since the bucket was full, the calls answered true are the
\* first bucket_size ones.  After a denial the next call is answered true
\* exactly if the time since the denial has refilled the missing part of
\* one token.
C10_ExhaustThenRefill ==
    \A p \in Procs :
        task[p] = "allow" =>
            LET layer == Layers[req[p].layer]
            IN  /\ now = StartTime =>
                      past[p].granted = Min(NReturned(p), Capacity(layer))
                /\ (outcome[p] # Pending /\ past[p].last.kind = "denied") =>
                      (outcome[p].kind = "allowed"
                         <=> (outcome[p].t - past[p].last.t) * Limiter(layer).refill_rate
                                >= TokensRequested * TokenUnit - past[p].last.current_tokens)

\* the bucket was emptied with no time elapsed, a call was denied, and a
\* later call was answered true
C10_Witness ==
    \E p \in Procs :
        /\ task[p] = "allow"
        /\ calls[p] = Capacity(Layers[req[p].layer]) + 2
        /\ past[p].last.kind = "denied"
        /\ past[p].last.t = StartTime
        /\ outcome[p].kind = "allowed"
        /\ past[p].granted = Capacity(Layers[req[p].layer]) + 1

\* the tokens a request found in the bucket of a layer, refilled to the time
\* of its check, and the layers at which it lacks a token
Available(p, layer) ==
    Refilled(Limiter(layer), buckets[KeyOf(layer, req[p])], local[p].t)
FailingLayers(p) ==
    {Layers[i] : i \in {j \in 1..Len(Layers) :
                           Available(p, Layers[j]) < TokensRequested * TokenUnit}}

\* C11: the retry_after of a rejection by the rate limiting is positive and
\* is the longest, over the layers that lack a token, of
\* (1 - available tokens) / refill_rate.
C11_RetryAfterIsRefillTime ==
    \A p \in Requests :
        outcome[p].kind = "RateLimited" =>
            /\ outcome[p].retry_after > 0
            /\ \E l \in FailingLayers(p) :
                  outcome[p].retry_after * Limiter(l).refill_rate
                     = TokensRequested * TokenUnit - Available(p, l)
            /\ \A l \in FailingLayers(p) :
                  outcome[p].retry_after * Limiter(l).refill_rate
                     >= TokensRequested * TokenUnit - Available(p, l)

\* the step in which validate_action_proof makes its checks for p
Checked(p) == pc[p] = "v_check" /\ pc'[p] # "v_check"
Skew(p) == Abs(now - req[p].proof.timestamp)

Appliers == {p \in Procs : task[p] = "apply"}

RowsOfUser(u) == {i \in 1..Len(history) : history[i].user_id = u}

\* C14: a score update transaction that ends with NotFound or with
\* ConcurrentConflict has written nothing, and the score and its row of
\* score_history are written together: in every state the score of a user
\* is its initial score plus the points of its rows, one row per write.
C14_FailedTransactionWritesNothing ==
    /\ \A p \in Appliers :
          outcome[p].kind \in {"NotFound", "ConcurrentConflict"} =>
              /\ RowsOf(p) = {}
              /\ effects[p] = {}
    /\ \A u \in Users :
          /\ score[u] - InitialScore[u] = HistoryPoints(u)
          /\ version[u] = Cardinality(RowsOfUser(u))
    /\ \A i \in 1..Len(history) : history[i].user_id \in Users

\* one transaction ended with NotFound, one with ConcurrentConflict, and
\* a third one was applied
C14_Witness ==
    \E p, q, r \in Appliers :
        /\ outcome[p].kind = "NotFound"
        /\ outcome[q].kind = "ConcurrentConflict"
        /\ outcome[r].kind = "applied"
        /\ score[1] = InitialScore[1] + req[r].proof.expected_points

\* the scores after the first n rows of score_history were written, that is
\* after the n-th commit
PointsAfter(u, n) ==
    SumOver([i \in 1..Len(history) |-> history[i].points_added],
            {i \in (n + 1)..Len(history) : history[i].user_id = u})
ScoreAt(n) == [u \in DOMAIN score |-> score[u] - PointsAfter(u, n)]

\* the generation of a leaderboard snapshot: the last commit it reflects,
\* or -1 if it is the leaderboard of no state of the store
Generations(top_10) == {n \in 0..Len(history) : top_10 = TopTen(ScoreAt(n))}
Generation(top_10) ==
    IF Generations(top_10) = {} THEN 0 - 1
    ELSE CHOOSE n \in Generations(top_10) : \A k \in Generations(top_10) : k <= n

\* C15: whatever the interleaving of the cache refreshes of concurrent
\* requests, a snapshot in the cache is never replaced by an older one: one
\* that was read from the store before a commit the cached one reflects.
C15_CacheNeverRegresses ==
    [][(cache # NoSnapshot /\ cache' # NoSnapshot)
          => Generation(cache'.top_10) >= Generation(cache.top_10)]_vars

\* C16: once a request has deleted the cache key and then set it to its
\* snapshot s, a snapshot found in the cache is s or a newer one, whatever
\* other requests set in between.
C16_GetAfterPopulate ==
    \A p \in Requests :
        ({"cache_delete", "cache_set"} \subseteq effects[p] /\ cache # NoSnapshot)
            => Generation(cache.top_10) >= Generation(local[p].topk)

Loaders == {p \in Procs : task[p] = "load"}
\* the step in which p reads the cache key
Got(p) == pc[p] = "cache_get" /\ pc'[p] # "cache_get"
\* the step in which p deletes the cache key
Invalidated(p) == "cache_delete" \in effects'[p] \ effects[p]

\* C17: the read of the cache key returns the cached leaderboard exactly if
\* the key was set less than LeaderboardTTL seconds ago and has not been
\* deleted since; in every other case it is a miss, and the leaderboard is
\* read from the database and set again.  A delete leaves no snapshot.
C17_FreshWithinTTL ==
    /\ [](\A p \in Loaders :
             outcome[p].kind = "hit" =>
                 /\ outcome[p].t - outcome[p].set_at < LeaderboardTTL
                 /\ outcome[p].top_10 # <<>>)
    /\ [][\A p \in Loaders :
             Got(p) =>
                 IF cache # NoSnapshot /\ now - cache.set_at < LeaderboardTTL
                 THEN /\ outcome'[p].kind = "hit"
                      /\ outcome'[p].top_10 = cache.top_10
                 ELSE /\ outcome'[p] = Pending
                      /\ pc'[p] = "load_select"]_vars
    /\ [][\A p \in Procs : Invalidated(p) => cache' = NoSnapshot]_vars

\* a load found the snapshot of the score update 30 seconds after it was
\* set; the next one, 60 seconds after, missed and set the leaderboard again
C17_Witness ==
    \E p \in Loaders :
        /\ past[p].last.kind = "hit"
        /\ past[p].last.t - past[p].last.set_at = ShortWait
        /\ outcome[p].kind = "loaded"
        /\ outcome[p].t - past[p].last.set_at >= LeaderboardTTL
        /\ outcome[p].top_10 = TopTen(score)

\* the leaderboards that are held somewhere: in the cache, in a broadcast
Snapshots ==
    (IF cache = NoSnapshot THEN {} ELSE {cache.top_10})
    \cup {events[i].top_10 : i \in 1..Len(events)}

\* at most TopK entries, no user twice, by score descending and then by id
\* ascending
WellOrdered(top_10) ==
    /\ Len(top_10) <= TopK
    /\ \A i, j \in 1..Len(top_10) :
          i < j => \/ top_10[i].score > top_10[j].score
                   \/ /\ top_10[i].score = top_10[j].score
                      /\ top_10[i].id < top_10[j].id

\* the entries are users with their scores in sc, and no user that is left
\* out comes before one that is in
TopOf(top_10, sc) ==
    /\ Len(top_10) = Min(TopK, Cardinality(DOMAIN sc))
    /\ \A i \in 1..Len(top_10) :
          /\ top_10[i].id \in DOMAIN sc
          /\ top_10[i].score = sc[top_10[i].id]
    /\ \A u \in DOMAIN sc :
          (\A i \in 1..Len(top_10) : top_10[i].id # u) =>
              \A i \in 1..Len(top_10) :
                  \/ top_10[i].score > sc[u]
                  \/ (top_10[i].score = sc[u] /\ top_10[i].id < u)

InitHub ==
    /\ InitStore
    /\ task = Tasks("request", Cardinality(Users))
    /\ req = [p \in Procs |-> IF p \in Users THEN Input(p, TRUE, Good(p, 1), 1) ELSE Idle]
    /\ buckets = AllAbsent
    /\ initial = buckets
    /\ InitProcs

NextHub ==
    \/ \E p \in Procs : Step(p)
    \/ \E c \in Connections : Connect(c) \/ Emit(c) \/ Timeout(c) \/ Disconnect(c)

SpecHub == InitHub /\ [][NextHub]_vars

\* --- the same with a client that stops reading ------------------------------
\* the client of connection 1 never takes a message; the other clients take
\* theirs before the server's timeout
Hangs(c) == c = 1

\* one good request of user 1
InitHubLive ==
    /\ InitStore
    /\ task = Tasks("request", 1)
    /\ req = [p \in Procs |-> IF p = 1 THEN Input(1, TRUE, Good(1, 1), 1) ELSE Idle]
    /\ buckets = AllAbsent
    /\ initial = buckets
    /\ InitProcs

NextHubLive ==
    \/ \E p \in Procs : Step(p)
    \/ \E c \in Connections :
          \/ Connect(c)
          \/ ~Hangs(c) /\ Emit(c)
          \/ Hangs(c) /\ Timeout(c)
          \/ Disconnect(c)

\* every request is served, every client that reads is sent what waits for
\* it, and the timeout of a waiting message fires
SpecHubLive ==
    /\ InitHubLive
    /\ [][NextHubLive]_vars
    /\ \A p \in Procs : WF_vars(Step(p))
    /\ \A c \in Connections : WF_vars(~Hangs(c) /\ Emit(c))
    /\ \A c \in Connections : WF_vars(Hangs(c) /\ Timeout(c))

\* the broadcasts published since a connection opened
PublishedSince(c) == SubSeq(events, hub[c].since + 1, Len(events))

IsPrefix(r, q) == Len(r) <= Len(q) /\ r = SubSeq(q, 1, Len(r))

C22_HungConnectionBlocksNobody ==
    /\ [](\A c \in Connections :
            hub[c].status = "open" /\ hub[c].inbox # <<>> /\ ~Hangs(c)
                => ENABLED Emit(c))
    /\ \A c \in Connections :
          (Hangs(c) /\ hub[c].status = "open" /\ hub[c].inbox # <<>>)
              ~> (hub[c].status = "closed")
    /\ \A c \in Connections : \A i \in 1..Cardinality(Users) :
          (~Hangs(c) /\ hub[c].status = "open" /\ hub[c].since < i /\ i <= Len(events))
              ~> (hub[c].status = "closed" \/ Len(hub[c].received) >= i - hub[c].since)
    /\ \A p \in Procs : (pc[p] = "broadcast") ~> (pc[p] = "done")

\* the hung connection was closed with a broadcast it never took, which
\* another connection, open at the same time, received
C22_Witness ==
    \E c, d \in Connections :
        /\ Hangs(c)
        /\ hub[c].status = "closed"
        /\ hub[c].received = <<>>
        /\ hub[c].since = 0
        /\ ~Hangs(d)
        /\ hub[d].since = 0
        /\ Len(events) >= 1
        /\ Len(hub[d].received) >= 1
        /\ hub[d].received[1] = events[1]

\* C23: when the concurrent requests of two different users have both
\* succeeded and both broadcasts are out, the store holds both increments
\* and the last broadcast carries the leaderboard with both new scores.
C23_LastBroadcastHasBoth ==
    (/\ \A p \in Users : pc[p] = "done" /\ outcome[p].kind = "success"
     /\ Len(events) = Cardinality(Users))
        => /\ \A p \in Users :
                 score[req[p].user] =
                     InitialScore[req[p].user] + req[p].proof.expected_points
           /\ events[Len(events)].top_10 = TopTen(score)

\* --- one request through its phases ------------------------------------------
\* one request, good or with one of the things that can be wrong with it
InitStages ==
    /\ InitStore
    /\ task = Tasks("request", 1)
    /\ \E sc \in Scenarios :
          /\ req = [p \in Procs |-> IF p = 1 THEN sc[1] ELSE Idle]
          /\ buckets = sc[2]
    /\ initial = buckets
    /\ InitProcs

\* every request is served
SpecStages == InitStages /\ [][Next]_vars /\ \A p \in Procs : WF_vars(Step(p))

\* how far a request has come: 0 received, 1 authenticated, 2 admitted by the
\* rate limiter, 3 proof checked, 4 applied, 5 cache refreshed, 6 responded,
\* 7 broadcast or stopped
StageOf(where) ==
    CASE where = "received" -> 0
      [] where \in {"rl_time", "rl_get", "rl_set"} -> 1
      [] where \in {"v_check", "v_record"} -> 2
      [] where \in {"txn_begin", "txn_commit"} -> 3
      [] where \in {"cache_delete", "cache_select", "cache_set"} -> 4
      [] where = "respond" -> 5
      [] where = "broadcast" -> 6
      [] where = "done" -> 7

LaterEffects == {"score", "cache_delete", "cache_set", "broadcast"}

\* the request passes authentication, and its proof passes the checks
Admissible(p) ==
    /\ req[p].token_valid
    /\ IsTimestampFresh(req[p].proof.timestamp, now)
    /\ req[p].proof.client_signature = GenerateHmac(req[p].proof, Secret(req[p].user))
    /\ ValidateActionData(req[p].proof)

RECURSIVE SumLoop(_, _, _)
SumLoop(n, i, sum) == IF i <= n THEN SumLoop(n, i + 1, sum + i) ELSE sum

sum_to_n_a(n) == SumLoop(n, 1, 0)

\* n * (n + 1) / 2: the product of two neighbours is even and not negative,
\* the division is exact
sum_to_n_b(n) == (n * (n + 1)) \div 2

RECURSIVE sum_to_n_c(_)
sum_to_n_c(n) == IF n <= 0 THEN 0 ELSE n + sum_to_n_c(n - 1)

SumFunctions == {"a", "b", "c"}

SumBy(f, n) ==
    CASE f = "a" -> sum_to_n_a(n)
      [] f = "b" -> sum_to_n_b(n)
      [] f = "c" -> sum_to_n_c(n)

\* one caller with a number n; nothing has been computed
InitSum ==
    /\ InitStore
    /\ task = [p \in Procs |-> IF p = 1 THEN "sum" ELSE "idle"]
    /\ \E n \in (0 - MaxN)..MaxN :
          req = [p \in Procs |-> IF p = 1 THEN [n |-> n, layer |-> 1] ELSE Idle]
    /\ buckets = AllAbsent
    /\ initial = buckets
    /\ pc = [p \in Procs |-> IF p = 1 THEN "sum" ELSE "done"]
    /\ local = [p \in Procs |-> LocalInit(1)]
    /\ outcome = [p \in Procs |-> IF p = 1 THEN [kind |-> "sums", result |-> {}] ELSE Pending]
    /\ calls = [p \in Procs |-> 1]
    /\ past = [p \in Procs |-> [granted |-> 0, last |-> Pending]]
    /\ effects = [p \in Procs |-> {}]

\* var result = sum_to_n_x(testN), for one of the three functions
CallSum(p, f) ==
    /\ pc[p] = "sum"
    /\ \A r \in outcome[p].result : r[1] # f
    /\ outcome' = [outcome EXCEPT ![p].result = @ \cup {<<f, SumBy(f, req[p].n)>>}]
    /\ UNCHANGED <<now, buckets, nonces, score, version, history, incidents, cache,
                   events, hub, prisma, initial, task, req, pc, local, calls, past, effects>>

NextSum == \E p \in Procs, f \in SumFunctions : CallSum(p, f)

SpecSum == InitSum /\ [][NextSum]_vars

\* 1 + 2 + ... + n, counted: the pairs <<i, j>> with 1 <= j <= i <= n
SumOneTo(n) == Cardinality({ij \in (1..n) \X (1..n) : ij[2] <= ij[1]})

\* C25: each of sum_to_n_a, sum_to_n_b and sum_to_n_c returns the sum of the
\* integers from 1 to n, which is 0 when n < 1, so the three agree.
C25_ThreeSumsAgree ==
    \A p \in Procs :
        task[p] = "sum" =>
            \A r \in outcome[p].result : r[2] = SumOneTo(req[p].n)

\* --- problem 5: the users API ---------------------------------------------------
\* HTTP_STATUS
HttpOk == 200
HttpCreated == 201
HttpNoContent == 204
HttpBadRequest == 400
HttpNotFound == 404
HttpInternalServerError == 500
\* limits of the controller's validation
MaxNameLength == 100
MaxEmailLength == 254
MaxAgeYears == 150

\* USER_ERROR_MESSAGES and the messages of the validation rules, word by word
EMAIL_ALREADY_EXISTS == <<"Email", "already", "exists">>
USER_NOT_FOUND == <<"User", "not", "found">>
INVALID_USER_DATA == <<"Invalid", "user", "data", "provided">>
DATABASE_ERROR == <<"Database", "operation", "failed">>
NameRequired == <<"Name", "is", "required", "and", "must", "be", "a", "non-empty", "string">>
EmailRequired == <<"Valid", "email", "is", "required">>
AgeOutOfRange == <<"Age", "must", "be", "a", "number", "between", "0", "and", "150">>
UserIdRequired == <<"Valid", "user", "ID", "is", "required">>

\* errorMap of ErrorHandler.handleDatabaseError
ErrorMap ==
    [fetch_users |-> <<"Failed", "to", "fetch", "users">>,
     fetch_user |-> <<"Failed", "to", "fetch", "user">>,
     check_email |-> <<"Failed", "to", "check", "email">>,
     create_user |-> <<"Failed", "to", "create", "user">>,
     update_user |-> <<"Failed", "to", "update", "user">>,
     delete_user |-> <<"Failed", "to", "delete", "user">>,
     filter_users |-> <<"Failed", "to", "filter", "users">>,
     get_stats |-> <<"Failed", "to", "get", "user", "statistics">>]

\* JavaScript values: strings are sequences of characters, a number says
\* whether it is an integer (if not, it stands for value + 0.5)
Str(chars) == [type |-> "string", value |-> chars]
Num(n) == [type |-> "number", value |-> n, integer |-> TRUE]
Half(n) == [type |-> "number", value |-> n, integer |-> FALSE]
Undefined == [type |-> "undefined", value |-> <<>>]

Whitespace == {" "}
Digits == <<"0", "1", "2", "3", "4", "5", "6", "7", "8", "9">>
IsDigit(c) == \E d \in 1..Len(Digits) : Digits[d] = c
DigitValue(c) == (CHOOSE d \in 1..Len(Digits) : Digits[d] = c) - 1

\* String.prototype.trim
RECURSIVE TrimStart(_)
TrimStart(chars) ==
    IF chars # <<>> /\ Head(chars) \in Whitespace THEN TrimStart(Tail(chars)) ELSE chars
RECURSIVE TrimEnd(_)
TrimEnd(chars) ==
    IF chars # <<>> /\ chars[Len(chars)] \in Whitespace
    THEN TrimEnd(SubSeq(chars, 1, Len(chars) - 1)) ELSE chars
Trim(chars) == TrimEnd(TrimStart(chars))

\* String.prototype.includes, on words or on characters
Includes(text, part) ==
    \E i \in 1..(Len(text) - Len(part) + 1) : SubSeq(text, i, i + Len(part) - 1) = part

\* parseInt: leading whitespace is skipped, a sign is taken, then the digits
\* up to the first character that is none; NaN when there is no digit
RECURSIVE LeadingDigits(_)
LeadingDigits(chars) ==
    IF chars # <<>> /\ IsDigit(Head(chars))
    THEN <<Head(chars)>> \o LeadingDigits(Tail(chars)) ELSE <<>>
RECURSIVE DecimalValue(_)
DecimalValue(ds) ==
    IF ds = <<>> THEN 0
    ELSE 10 * DecimalValue(SubSeq(ds, 1, Len(ds) - 1)) + DigitValue(ds[Len(ds)])
parseInt(chars) ==
    LET t == TrimStart(chars)
        signed == t # <<>> /\ Head(t) \in {"-", "+"}
        ds == LeadingDigits(IF signed THEN Tail(t) ELSE t)
    IN  IF ds = <<>> THEN [nan |-> TRUE, value |-> 0]
        ELSE [nan |-> FALSE,
              value |-> IF signed /\ Head(t) = "-" THEN 0 - DecimalValue(ds)
                        ELSE DecimalValue(ds)]

\* /^[^\s@]+@[^\s@]+\.[^\s@]+$/.test(email) && email.length <= 254
validateEmail(email) ==
    /\ email.type = "string"
    /\ LET e == email.value
       IN  /\ \E i, j \in 1..Len(e) :
                 /\ 1 < i /\ i + 1 < j /\ j < Len(e)
                 /\ e[i] = "@" /\ e[j] = "."
                 /\ \A k \in 1..Len(e) : k # i => e[k] \notin Whitespace \cup {"@"}
           /\ Len(e) <= MaxEmailLength

\* !!(name && name.trim().length > 0 && name.length <= 100)
validateName(name) ==
    /\ name.type = "string"
    /\ name.value # <<>>
    /\ Len(Trim(name.value)) > 0
    /\ Len(name.value) <= MaxNameLength

\* Number.isInteger(age) && age >= 0 && age <= 150
validateAge(age) ==
    /\ age.type = "number"
    /\ age.integer
    /\ age.value >= 0
    /\ age.value <= MaxAgeYears

\* ValidationRules: true, or the message of the first rule that fails
Valid == <<>>
RuleName(name) ==
    IF name.type # "string" \/ name.value = <<>> \/ Len(Trim(name.value)) = 0
    THEN NameRequired ELSE Valid
RuleEmail(email) ==
    IF email.type # "string" \/ email.value = <<>> \/ ~Includes(email.value, <<"@">>)
    THEN EmailRequired ELSE Valid
\* age < 0 || age > 150, of a number that may be value + 0.5
RuleAge(age) ==
    IF \/ age.type # "number"
       \/ age.value < 0
       \/ age.value > MaxAgeYears
       \/ (age.value = MaxAgeYears /\ ~age.integer)
    THEN AgeOutOfRange ELSE Valid
RuleUserId(id) ==
    IF id.type # "number" \/ id.value <= 0 THEN UserIdRequired ELSE Valid
FirstFailure(results) ==
    IF \E i \in 1..Len(results) : results[i] # Valid
    THEN results[CHOOSE i \in 1..Len(results) :
                    results[i] # Valid /\ \A k \in 1..(i - 1) : results[k] = Valid]
    ELSE Valid
validateUserCreation(name, email, age) ==
    FirstFailure(<<RuleName(name), RuleEmail(email), RuleAge(age)>>)
validateUserUpdate(id, name, email, age) ==
    FirstFailure(<<RuleUserId(id), validateUserCreation(name, email, age)>>)

\* --- prisma.user ---------------------------------------------------------------
NoRow == [id |-> 0, name |-> <<>>, email |-> <<>>, age |-> 0]
Error(words) == [is_error |-> TRUE, message |-> words]
UniqueConstraintFailed ==
    Error(<<"Unique", "constraint", "failed", "on", "the", "fields:", "(email)">>)
RecordNotFound == Error(<<"Record", "to", "update", "or", "delete", "does", "not", "exist.">>)
NoFault == Error(<<>>)
\* what a query can fail with when the database cannot serve it
DbFaults == {Error(<<"Can't", "reach", "database", "server">>)}
FaultChoices(db) == IF db.faults < MaxDbFaults THEN {NoFault} \cup DbFaults ELSE {NoFault}

\* what a function did: it returned a value or threw an error
Returned(found, row) == [ok |-> TRUE, found |-> found, row |-> row, error |-> NoFault]
Threw(error) == [ok |-> FALSE, found |-> FALSE, row |-> NoRow, error |-> error]

FindUnique(db, id) ==
    IF \E r \in db.user : r.id = id
    THEN Returned(TRUE, CHOOSE r \in db.user : r.id = id)
    ELSE Returned(FALSE, NoRow)

\* a query that writes: the table after it and what it did
Create(db, name, email, age) ==
    IF \E r \in db.user : r.email = email
    THEN [db |-> db, did |-> Threw(UniqueConstraintFailed)]
    ELSE LET row == [id |-> db.next_id, name |-> name, email |-> email, age |-> age]
         IN  [db |-> [db EXCEPT !.user = @ \cup {row}, !.next_id = @ + 1],
              did |-> Returned(TRUE, row)]
Update(db, id, name, email, age) ==
    IF ~\E r \in db.user : r.id = id
    THEN [db |-> db, did |-> Threw(RecordNotFound)]
    ELSE IF \E r \in db.user : r.id # id /\ r.email = email
    THEN [db |-> db, did |-> Threw(UniqueConstraintFailed)]
    ELSE LET row == [id |-> id, name |-> name, email |-> email, age |-> age]
         IN  [db |-> [db EXCEPT !.user = {r \in @ : r.id # id} \cup {row}],
              did |-> Returned(TRUE, row)]
Delete(db, id) ==
    IF ~\E r \in db.user : r.id = id
    THEN [db |-> db, did |-> Threw(RecordNotFound)]
    ELSE [db |-> [db EXCEPT !.user = {r \in @ : r.id # id}],
          did |-> Returned(TRUE, NoRow)]

\* --- the decorators -----------------------------------------------------------
\* ErrorHandler.handleDatabaseError: the message of the Error it throws
handleDatabaseError(error, operation) ==
    IF error.is_error /\ Includes(error.message, <<"Unique", "constraint">>)
    THEN EMAIL_ALREADY_EXISTS
    ELSE IF operation \in DOMAIN ErrorMap THEN ErrorMap[operation]
    ELSE DATABASE_ERROR

\* @HandleErrors(operation): what the caller of the method gets
\* (HandleErrorsSwallows: the handler returns, the method resolves undefined)
HandleErrorsSwallows(operation, did) ==
    IF did.ok THEN did ELSE Returned(FALSE, NoRow)
HandleErrors(operation, did) ==
    IF did.ok THEN did ELSE Threw(Error(handleDatabaseError(did.error, operation)))

\* @ValidateInput(rule): the method runs only if the rule returned true
ValidateInput(check, did) == IF check # Valid THEN Threw(Error(check)) ELSE did

\* --- UserService, one step for each query ------------------------------------
ApiFrame == <<now, buckets, nonces, score, version, history, incidents, cache, events,
              hub, initial, task, req, calls>>

Arguments(id, name, email, age) == [id |-> id, name |-> name, email |-> email, age |-> age]
ApiLocal ==
    [call |-> Arguments(Num(0), Str(<<>>), Str(<<>>), Num(0)), resume |-> "done",
     result |-> Returned(FALSE, NoRow), emailAlreadyExists |-> FALSE, raised |-> <<>>]

\* the database after a query, with the fault counted
Served(db, fault) == IF fault = NoFault THEN db ELSE [db EXCEPT !.faults = @ + 1]

\* the decorated method settles with what the undecorated one did: its
\* caller in the controller is resumed, a direct caller is done
Settle(p, tags, operation, did, db) ==
    LET got == HandleErrors(operation, did)
    IN  /\ prisma' = db
        /\ local' = [local EXCEPT
                        ![p].result = got,
                        ![p].raised = IF did.ok THEN @
                                      ELSE Append(@, [operation |-> operation,
                                                      original |-> did.error,
                                                      got |-> got])]
        /\ effects' = [effects EXCEPT ![p] = @ \cup tags]
        /\ IF task[p] = "service"
           THEN Finish(p, [kind |-> "settled", ok |-> got.ok, found |-> got.found,
                           row |-> got.row, message |-> got.error.message])
           ELSE /\ Goto(p, local[p].resume)
                /\ UNCHANGED <<outcome, past>>
        /\ UNCHANGED ApiFrame

\* the method goes on to its second query
Proceed(p, tags, where) ==
    /\ Goto(p, where)
    /\ effects' = [effects EXCEPT ![p] = @ \cup tags]
    /\ UNCHANGED <<prisma, local, outcome, past>>
    /\ UNCHANGED ApiFrame

\* a query that reads, behind the method's validation, with a fault or not
Query(check, fault, did) ==
    ValidateInput(check, IF fault # NoFault THEN Threw(fault) ELSE did)

UserService_emailExists(p) ==
    /\ pc[p] = "svc_emailExists"
    /\ \E fault \in FaultChoices(prisma) :
          LET email == local[p].call.email
              check == RuleEmail(email)
              count == \E r \in prisma.user : r.email = email.value
          IN  Settle(p, {"emailExists"}, "check_email",
                     Query(check, fault, Returned(count, NoRow)),
                     IF check = Valid THEN Served(prisma, fault) ELSE prisma)

UserService_getUserById(p) ==
    /\ pc[p] = "svc_getUserById"
    /\ \E fault \in FaultChoices(prisma) :
          LET id == local[p].call.id
              check == RuleUserId(id)
          IN  Settle(p, {"getUserById"}, "fetch_user",
                     Query(check, fault, FindUnique(prisma, id.value)),
                     IF check = Valid THEN Served(prisma, fault) ELSE prisma)

UserService_createUser(p) ==
    /\ pc[p] = "svc_createUser"
    /\ \E fault \in FaultChoices(prisma) :
          LET c == local[p].call
              check == validateUserCreation(c.name, c.email, c.age)
              q == Create(prisma, c.name.value, c.email.value, c.age.value)
          IN  IF check # Valid
              THEN Settle(p, {"createUser"}, "create_user", Threw(Error(check)), prisma)
              ELSE Settle(p, {"createUser", "prisma.create"}, "create_user",
                          IF fault # NoFault THEN Threw(fault) ELSE q.did,
                          Served(IF fault # NoFault THEN prisma ELSE q.db, fault))

\* updateUser and deleteUser: const existingUser = await findUnique(...)
FindFirst(p, method, operation, check, write) ==
    \E fault \in FaultChoices(prisma) :
        LET found == FindUnique(prisma, local[p].call.id.value)
        IN  IF check # Valid
            THEN Settle(p, {method}, operation, Threw(Error(check)), prisma)
            ELSE IF fault # NoFault
            THEN Settle(p, {method}, operation, Threw(fault), Served(prisma, fault))
            ELSE IF ~found.found
            THEN Settle(p, {method}, operation, Returned(FALSE, NoRow), prisma)
            ELSE Proceed(p, {method}, write)

UserService_updateUser(p) ==
    /\ pc[p] = "svc_updateUser"
    /\ LET c == local[p].call
       IN  FindFirst(p, "updateUser", "update_user",
                     validateUserUpdate(c.id, c.name, c.email, c.age), "svc_update")

\* await this.prisma.user.update(...)
UserService_update(p) ==
    /\ pc[p] = "svc_update"
    /\ \E fault \in FaultChoices(prisma) :
          LET c == local[p].call
              q == Update(prisma, c.id.value, c.name.value, c.email.value, c.age.value)
          IN  Settle(p, {"prisma.update"}, "update_user",
                     IF fault # NoFault THEN Threw(fault) ELSE q.did,
                     Served(IF fault # NoFault THEN prisma ELSE q.db, fault))

UserService_deleteUser(p) ==
    /\ pc[p] = "svc_deleteUser"
    /\ FindFirst(p, "deleteUser", "delete_user", RuleUserId(local[p].call.id), "svc_delete")

\* await this.prisma.user.delete(...); return true
UserService_delete(p) ==
    /\ pc[p] = "svc_delete"
    /\ \E fault \in FaultChoices(prisma) :
          LET q == Delete(prisma, local[p].call.id.value)
          IN  Settle(p, {"prisma.delete"}, "delete_user",
                     IF fault # NoFault THEN Threw(fault) ELSE q.did,
                     Served(IF fault # NoFault THEN prisma ELSE q.db, fault))

ServiceStep(p) ==
    \/ UserService_emailExists(p)
    \/ UserService_getUserById(p)
    \/ UserService_createUser(p)
    \/ UserService_updateUser(p)
    \/ UserService_update(p)
    \/ UserService_deleteUser(p)
    \/ UserService_delete(p)

\* --- userController -----------------------------------------------------------
\* res.status(status).json(...) or .send()
Reply(p, status, error, row) ==
    /\ Finish(p, [kind |-> "response", status |-> status, error |-> error, row |-> row])
    /\ UNCHANGED <<prisma, local, effects>>
    /\ UNCHANGED ApiFrame

\* await userService.method(...): the controller waits for the method
Call(p, method, args, resume) ==
    /\ local' = [local EXCEPT ![p].call = args, ![p].resume = resume,
                              ![p].emailAlreadyExists = local[p].result.found]
    /\ Goto(p, method)
    /\ UNCHANGED <<prisma, outcome, past, effects>>
    /\ UNCHANGED ApiFrame

\* catch (error): 500 for whatever a service method threw
Caught(p) == Reply(p, HttpInternalServerError, DATABASE_ERROR, NoRow)

ValidBody(r) == validateName(r.name) /\ validateEmail(r.email) /\ validateAge(r.age)

\* isNaN(id) || id <= 0, of id = parseInt(req.params.id)
BadId(r) == parseInt(r.id).nan \/ parseInt(r.id).value <= 0

\* (Untrimmed: the body as it came)
Untrimmed(r) == Arguments(Num(parseInt(r.id).value), r.name, r.email, r.age)
Trimmed(r) ==
    Arguments(Num(parseInt(r.id).value), Str(Trim(r.name.value)),
              Str(Trim(r.email.value)), r.age)

createUser(p) ==
    /\ pc[p] = "createUser"
    /\ IF ~ValidBody(req[p])
       THEN Reply(p, HttpBadRequest, INVALID_USER_DATA, NoRow)
       ELSE Call(p, "svc_emailExists",
                 Arguments(Num(0), req[p].name, req[p].email, req[p].age),
                 "createUser_exists")

createUser_exists(p) ==
    /\ pc[p] = "createUser_exists"
    /\ IF ~local[p].result.ok THEN Caught(p)
       ELSE IF local[p].result.found
       THEN /\ Finish(p, [kind |-> "response", status |-> HttpBadRequest,
                          error |-> EMAIL_ALREADY_EXISTS, row |-> NoRow])
            /\ local' = [local EXCEPT ![p].emailAlreadyExists = TRUE]
            /\ UNCHANGED <<prisma, effects>>
            /\ UNCHANGED ApiFrame
       ELSE Call(p, "svc_createUser", [Trimmed(req[p]) EXCEPT !.id = Num(0)],
                 "createUser_created")

createUser_created(p) ==
    /\ pc[p] = "createUser_created"
    /\ IF ~local[p].result.ok THEN Caught(p)
       ELSE Reply(p, HttpCreated, <<>>, local[p].result.row)

getUser(p) ==
    /\ pc[p] = "getUser"
    /\ IF BadId(req[p])
       THEN Reply(p, HttpBadRequest, INVALID_USER_DATA, NoRow)
       ELSE Call(p, "svc_getUserById",
                 [local[p].call EXCEPT !.id = Num(parseInt(req[p].id).value)],
                 "getUser_got")

getUser_got(p) ==
    /\ pc[p] = "getUser_got"
    /\ IF ~local[p].result.ok THEN Caught(p)
       ELSE IF ~local[p].result.found
       THEN Reply(p, HttpNotFound, USER_NOT_FOUND, NoRow)
       ELSE Reply(p, HttpOk, <<>>, local[p].result.row)

updateUser(p) ==
    /\ pc[p] = "updateUser"
    /\ IF BadId(req[p]) \/ ~ValidBody(req[p])
       THEN Reply(p, HttpBadRequest, INVALID_USER_DATA, NoRow)
       ELSE Call(p, "svc_updateUser", Trimmed(req[p]), "updateUser_updated")

updateUser_updated(p) ==
    /\ pc[p] = "updateUser_updated"
    /\ IF ~local[p].result.ok THEN Caught(p)
       ELSE IF ~local[p].result.found
       THEN Reply(p, HttpNotFound, USER_NOT_FOUND, NoRow)
       ELSE Reply(p, HttpOk, <<>>, local[p].result.row)

deleteUser(p) ==
    /\ pc[p] = "deleteUser"
    /\ IF BadId(req[p])
       THEN Reply(p, HttpBadRequest, INVALID_USER_DATA, NoRow)
       ELSE Call(p, "svc_deleteUser",
                 [local[p].call EXCEPT !.id = Num(parseInt(req[p].id).value)],
                 "deleteUser_deleted")

deleteUser_deleted(p) ==
    /\ pc[p] = "deleteUser_deleted"
    /\ IF ~local[p].result.ok THEN Caught(p)
       ELSE IF ~local[p].result.found
       THEN Reply(p, HttpNotFound, USER_NOT_FOUND, NoRow)
       ELSE Reply(p, HttpNoContent, <<>>, NoRow)

ControllerStep(p) ==
    \/ createUser(p) \/ createUser_exists(p) \/ createUser_created(p)
    \/ getUser(p) \/ getUser_got(p)
    \/ updateUser(p) \/ updateUser_updated(p)
    \/ deleteUser(p) \/ deleteUser_deleted(p)

\* --- requests to the users API ------------------------------------------------
GoodName == Str(<<"J">>)
NewEmail == Str(<<"n", "@", "b", ".", "c">>)
GoodAge == Num(30)
Names == {GoodName, Str(<<" ", "J", " ">>)}
BadNames == {Str(<<>>), Str(<<" ">>), Str([i \in 1..(MaxNameLength + 1) |-> "x"]), Undefined}
Emails == {NewEmail, Str(FirstUser.email)}
BadEmails ==
    {Str(<<"n", "@", "b">>), Str(<<"n", " ", "@", "b", ".", "c">>),
     Str(<<"n", "@", "@", "b", ".", "c">>), Str(<<"n", "@", "b", ".">>), Undefined}
BadAges == {Num(0 - 5), Num(MaxAgeYears + 1), Half(30), Undefined}
Ids ==
    {<<"1">>, <<"2">>, <<"0">>, <<"-", "1">>, <<>>, <<"a", "b", "c">>,
     <<"1", "a">>, <<" ", "1">>, <<"1", ".", "5">>, <<"1", "0">>}

ApiRequest(op, id, name, email, age) ==
    [op |-> op, id |-> id, name |-> name, email |-> email, age |-> age]

\* request 1: every operation, with good input and with each kind of bad
\* input
ApiMenu ==
    {ApiRequest("createUser", <<>>, n, e, GoodAge) : n \in Names, e \in Emails}
    \cup {ApiRequest("createUser", <<>>, n, NewEmail, GoodAge) : n \in BadNames}
    \cup {ApiRequest("createUser", <<>>, GoodName, e, GoodAge) : e \in BadEmails}
    \cup {ApiRequest("createUser", <<>>, GoodName, NewEmail, a) : a \in BadAges}
    \cup {ApiRequest(op, id, GoodName, NewEmail, GoodAge) :
            op \in {"getUser", "updateUser", "deleteUser"}, id \in Ids}
    \cup {ApiRequest("updateUser", <<"1">>, n, NewEmail, GoodAge) : n \in BadNames}
    \cup {ApiRequest("updateUser", <<"1">>, Str(<<" ", "J", " ">>), Str(FirstUser.email),
                      Num(MaxAgeYears))}

\* what the other requests ask for at the same time
ApiBackground ==
    {ApiRequest("createUser", <<>>, GoodName, NewEmail, GoodAge),
     ApiRequest("deleteUser", <<"1">>, GoodName, NewEmail, GoodAge),
     ApiRequest("updateUser", <<"1">>, GoodName, NewEmail, GoodAge)}

InitApiProcs ==
    /\ buckets = AllAbsent
    /\ initial = buckets
    /\ outcome = [p \in Procs |-> Pending]
    /\ calls = [p \in Procs |-> 1]
    /\ past = [p \in Procs |-> [granted |-> 0, last |-> Pending]]
    /\ effects = [p \in Procs |-> {}]

InitApi ==
    /\ InitStore
    /\ task = Tasks("api", NApiRequests)
    /\ \E first \in ApiMenu, other \in ApiBackground :
          req = [p \in Procs |-> IF p = 1 THEN first ELSE other]
    /\ pc = [p \in Procs |-> IF task[p] = "api" THEN req[p].op ELSE "done"]
    /\ local = [p \in Procs |-> ApiLocal]
    /\ InitApiProcs

NextApi == \E p \in Procs : ControllerStep(p) \/ ServiceStep(p)

SpecApi == InitApi /\ [][NextApi]_vars

\* --- direct calls of the service ----------------------------------------------
\* a method of UserService with arguments of any kind
ServiceMenu ==
    {[op |-> m, args |-> Arguments(id, n, e, a)] :
        m \in {"svc_emailExists", "svc_getUserById", "svc_createUser",
                "svc_updateUser", "svc_deleteUser"},
        id \in {Num(1), Num(2), Num(0)},
        n \in {GoodName, Str(<<" ">>)},
        e \in Emails \cup {Str(<<"n">>)},
        a \in {GoodAge, Num(MaxAgeYears + 1)}}

InitService ==
    /\ InitStore
    /\ task = Tasks("service", NApiRequests)
    /\ \E first \in ServiceMenu :
          req = [p \in Procs |->
                    IF p = 1 THEN first
                    ELSE [op |-> "svc_deleteUser",
                          args |-> Arguments(Num(1), GoodName, NewEmail, GoodAge)]]
    /\ pc = [p \in Procs |-> IF task[p] = "service" THEN req[p].op ELSE "done"]
    /\ local = [p \in Procs |-> [ApiLocal EXCEPT !.call = req[p].args]]
    /\ InitApiProcs

NextService == \E p \in Procs : ServiceStep(p)

SpecService == InitService /\ [][NextService]_vars

\* the requests of the users API for one operation
ApiCalls(op) == {p \in Procs : task[p] = "api" /\ req[p].op = op}
Answered(p) == pc[p] = "done" /\ outcome[p].kind = "response"
Answer(p, status, error) == outcome[p].status = status /\ outcome[p].error = error

\* the requests whose row was inserted
Creators ==
    {p \in ApiCalls("createUser") :
        /\ "prisma.create" \in effects[p]
        /\ local[p].result.ok
        /\ pc[p] \in {"createUser_created", "done"}}

\* invalid name, email or age: 400 and no call of the service
InvalidBodyRefused(p) ==
    ~ValidBody(req[p]) =>
        /\ Answer(p, HttpBadRequest, INVALID_USER_DATA)
        /\ effects[p] = {}

\* emailExists returned true: 400 and no user created
TakenEmailRefused(p) ==
    local[p].emailAlreadyExists =>
        /\ Answer(p, HttpBadRequest, EMAIL_ALREADY_EXISTS)
        /\ effects[p] = {"emailExists"}

\* 201 with the one user this request created, name and email trimmed
CreatedOne(p) ==
    /\ Answer(p, HttpCreated, <<>>)
    /\ p \in Creators
    /\ effects[p] = {"emailExists", "createUser", "prisma.create"}
    /\ outcome[p].row.id \in SeededUsers.next_id .. prisma.next_id - 1
    /\ outcome[p].row.name = Trim(req[p].name.value)
    /\ outcome[p].row.email = Trim(req[p].email.value)
    /\ outcome[p].row.age = req[p].age.value
    /\ \A q \in ApiCalls("createUser") \ {p} :
          Answered(q) /\ outcome[q].status = HttpCreated
              => outcome[q].row.id # outcome[p].row.id

\* C26 as stated: valid input whose email emailExists did not find is
\* always answered 201 with a created user.
C26_CreateAnswers400Or201 ==
    \A p \in ApiCalls("createUser") :
        Answered(p) =>
            /\ InvalidBodyRefused(p)
            /\ TakenEmailRefused(p)
            /\ (ValidBody(req[p]) /\ ~local[p].emailAlreadyExists) => CreatedOne(p)

\* C26: createUser answers 400 INVALID_USER_DATA without calling the service
\* when name, email or age is invalid, 400 EMAIL_ALREADY_EXISTS without
\* creating a user when emailExists returned true, and otherwise either 201
\* with the one user it created, name and email trimmed, or, when emailExists
\* or createUser of the service threw, 500 DATABASE_ERROR with no user
\* created; the table gains one row for each request whose insert succeeded.
C26_CreateAnswers ==
    /\ \A p \in ApiCalls("createUser") :
          Answered(p) =>
              /\ InvalidBodyRefused(p)
              /\ TakenEmailRefused(p)
              /\ (ValidBody(req[p]) /\ ~local[p].emailAlreadyExists) =>
                    \/ CreatedOne(p)
                    \/ /\ Answer(p, HttpInternalServerError, DATABASE_ERROR)
                       /\ local[p].raised # <<>>
                       /\ p \notin Creators
    /\ prisma.next_id - SeededUsers.next_id = Cardinality(Creators)

\* a name with spaces around it was stored trimmed and answered 201, while
\* a concurrent request was refused for the same email
C26_Witness ==
    \E p, q \in ApiCalls("createUser") :
        /\ Answered(p) /\ Answered(q)
        /\ outcome[p].status = HttpCreated
        /\ req[p].name.value # outcome[p].row.name
        /\ Answer(q, HttpBadRequest, EMAIL_ALREADY_EXISTS)

\* the requests that name a user by the id of the path
ByIdCalls == ApiCalls("getUser") \cup ApiCalls("updateUser") \cup ApiCalls("deleteUser")

\* an id that is no number: nothing but spaces, or a character that no
\* decimal number has
NonNumeric(chars) ==
    \/ Trim(chars) = <<>>
    \/ \E i \in 1..Len(chars) :
          ~IsDigit(chars[i]) /\ chars[i] \notin Whitespace \cup {"-", "."}

\* a non-numeric or non-positive id: 400 and no call of the service
BadIdRefused(p) ==
    (NonNumeric(req[p].id) \/ parseInt(req[p].id).value <= 0) =>
        /\ Answer(p, HttpBadRequest, INVALID_USER_DATA)
        /\ effects[p] = {}

\* the service found no user: 404, and it issued no update and no delete
MissingUserAnswered404(p) ==
    /\ (effects[p] # {} /\ local[p].result.ok /\ ~local[p].result.found) =>
          Answer(p, HttpNotFound, USER_NOT_FOUND)
    /\ outcome[p].status = HttpNotFound =>
          /\ outcome[p].error = USER_NOT_FOUND
          /\ effects[p] \cap {"prisma.update", "prisma.delete"} = {}

\* 204 only when this request deleted the user
DeletedWhenNoContent(p) ==
    outcome[p].status = HttpNoContent =>
        /\ req[p].op = "deleteUser"
        /\ "prisma.delete" \in effects[p]
        /\ local[p].call.id.value \in 1 .. prisma.next_id - 1
        /\ \A r \in prisma.user : r.id # local[p].call.id.value

\* what holds of the requests by id whatever the id
ByIdAnswersHold ==
    \A p \in ByIdCalls :
        Answered(p) => MissingUserAnswered404(p) /\ DeletedWhenNoContent(p)

\* C27: getUser, updateUser and deleteUser answer 400 for a non-numeric or
\* non-positive id without calling the service; 404 USER_NOT_FOUND when no
\* user with that id exists, the service issuing no update or delete; and
\* deleteUser answers 204 only when the user was actually deleted.
C27_BadIdMissingUserDeleted ==
    \A p \in ByIdCalls :
        Answered(p) =>
            /\ BadIdRefused(p)
            /\ MissingUserAnswered404(p)
            /\ DeletedWhenNoContent(p)

\* the direct calls of the service
ServiceCalls == {p \in Procs : task[p] = "service"}

\* the message the caller must get for an error raised in a method
MessageFor(original, operation) ==
    IF \E i \in 1..Len(original.message) - 1 :
          original.message[i] = "Unique" /\ original.message[i + 1] = "constraint"
    THEN <<"Email", "already", "exists">>
    ELSE CASE operation = "fetch_user" -> <<"Failed", "to", "fetch", "user">>
           [] operation = "check_email" -> <<"Failed", "to", "check", "email">>
           [] operation = "create_user" -> <<"Failed", "to", "create", "user">>
           [] operation = "update_user" -> <<"Failed", "to", "update", "user">>
           [] operation = "delete_user" -> <<"Failed", "to", "delete", "user">>

\* C28: every error raised inside a UserService method, by its validation
\* or by a query, reaches the caller as an Error whose message is 'Email
\* already exists' when the original message contains 'Unique constraint'
\* and the fixed message of the operation otherwise; a failing method never
\* resolves with a value.
C28_ErrorsAreMapped ==
    \A p \in ServiceCalls :
        /\ \A i \in 1..Len(local[p].raised) :
              LET r == local[p].raised[i]
              IN  /\ ~r.got.ok
                  /\ r.got.error.is_error
                  /\ r.got.error.message = MessageFor(r.original, r.operation)
        /\ (pc[p] = "done" /\ local[p].raised # <<>>) =>
              /\ outcome[p].kind = "settled"
              /\ ~outcome[p].ok
              /\ outcome[p].message =
                    MessageFor(local[p].raised[1].original, local[p].raised[1].operation)
        /\ (pc[p] = "done" /\ local[p].raised = <<>>) => outcome[p].ok

\* one call failed on the unique constraint and was told so, another failed
\* on something else and got the message of its operation
C28_Witness ==
    \E p, q \in ServiceCalls :
        /\ pc[p] = "done" /\ pc[q] = "done"
        /\ local[p].raised # <<>> /\ local[q].raised # <<>>
        /\ local[p].raised[1].original = UniqueConstraintFailed
        /\ outcome[p].message = EMAIL_ALREADY_EXISTS
        /\ outcome[q].message # EMAIL_ALREADY_EXISTS

\* the callers of Verify and the one that is answered in a step
Verifiers == {p \in Procs : task[p] = "verify"}
AnsweredNow(p) == pc[p] # "done" /\ pc'[p] = "done"

\* C29: Verify adds the pair (identity, nonce) to the used nonces only when
\* its result is Accepted, in the step that accepts and only if the pair was
\* not there; a step that rejects, for whatever reason, leaves the used
\* nonces unchanged, and no other step changes them.
C29_NonceAddedOnlyOnAccept ==
    [][/\ \A p \in Verifiers :
             AnsweredNow(p) =>
                IF outcome'[p].kind = "Accepted"
                THEN /\ ~IsNonceUsed(req[p].proof.nonce, req[p].user)
                     /\ nonces' = nonces \cup {[user_id |-> req[p].user,
                                                 nonce |-> req[p].proof.nonce,
                                                 created_at |-> now]}
                ELSE /\ outcome'[p].kind \in {"StaleProof", "InvalidSignature",
                                               "ReplayedProof", "ImplausiblePoints"}
                     /\ nonces' = nonces
       /\ nonces' # nonces =>
             \E p \in Verifiers : AnsweredNow(p) /\ outcome'[p].kind = "Accepted"]_vars

\* a proof was accepted and its nonce recorded, and the same proof was then
\* rejected as a replay while the proof of another caller was rejected for
\* its points, the used nonces being the one pair
C29_Witness ==
    /\ Cardinality(nonces) = 1
    /\ \E p, q \in Verifiers :
          /\ pc[p] = "done" /\ pc[q] = "done"
          /\ past[p].last.kind = "Accepted"
          /\ outcome[p].kind = "ReplayedProof"
          /\ outcome[q].kind \in {"ImplausiblePoints", "ReplayedProof"}
          /\ p # q

\* the outcomes of a failed ApplyIncrement
ApplyFailures == {"NotFound", "ConcurrentConflict"}

\* what a failed request has not done: no row of score_history, no
\* broadcast, no score written, no cache key deleted or set
NothingApplied(p) ==
    /\ RowsOf(p) = {}
    /\ EventsOf(p) = {}
    /\ effects[p] \cap {"score", "cache_delete", "cache_set", "broadcast"} = {}

KeyChecked(p) == KeyOf(LayerOf(p), req[p])

\* the token count after the refill, of a call that read bucket b at time t:
\* the count read (a full bucket if there was none) plus the rate times the
\* time since its last refill, at most the capacity
RefillOf(layer, b, t) ==
    LET size == Limiter(layer).bucket_size
        had == IF b = NoBucket THEN size ELSE b.tokens
        since == IF b = NoBucket THEN t ELSE b.last_refill
        added == (t - since) * Limiter(layer).refill_rate
    IN  IF had + added > size THEN size ELSE had + added

\* C31: every is_allowed call, allowed or denied, writes the bucket of the
\* key it checks: the tokens it read, refilled in proportion to the time
\* elapsed since the last refill and capped at the capacity, less the token
\* requested if the call is allowed, with last_refill set to the call's
\* current_time; it writes no other bucket and nothing else.
C31_EveryCallWritesItsBucket ==
    [][\A p \in Procs :
          (pc[p] = "rl_set" /\ pc'[p] # "rl_set") =>
              LET k == KeyChecked(p)
                  refilled == RefillOf(LayerOf(p), local[p].bucket, local[p].t)
                  allowed == refilled >= TokensRequested * TokenUnit
              IN  /\ buckets'[k].last_refill = local[p].t
                  /\ buckets'[k].tokens =
                        IF allowed THEN refilled - TokensRequested * TokenUnit
                        ELSE refilled
                  /\ \A other \in AllKeys \ {k} : buckets'[other] = buckets[other]
                  /\ <<nonces, score, version, history, incidents, cache, events,
                       hub, prisma>>' =
                     <<nonces, score, version, history, incidents, cache, events,
                       hub, prisma>>
                  /\ task[p] = "allow" =>
                        outcome'[p].kind = IF allowed THEN "allowed" ELSE "denied"]_vars

\* a call was denied some seconds after the bucket was drained: the bucket
\* holds the part of a token refilled since, and the time of the call
C31_Witness ==
    \E p \in Procs :
        /\ task[p] = "allow"
        /\ outcome[p].kind = "denied"
        /\ initial[KeyChecked(p)] = Drained
        /\ outcome[p].t > StartTime
        /\ buckets[KeyChecked(p)].last_refill = outcome[p].t
        /\ buckets[KeyChecked(p)].tokens > 0

\* C32: in every state the token count of each bucket is between 0 and the
\* capacity, and the last_refill of a bucket never moves backwards, whatever
\* the order of concurrent is_allowed calls with different current_time.
C32_BucketWithinBounds ==
    [][\A layer \in 1..Len(Layers) :
          LET k == KeyOf(Layers[layer], Idle)
          IN  /\ buckets[k] # NoBucket =>
                    /\ buckets[k].tokens >= 0
                    /\ buckets[k].tokens <= Limiter(Layers[layer]).bucket_size
              /\ (buckets[k] # NoBucket /\ buckets'[k] # NoBucket) =>
                    buckets'[k].last_refill >= buckets[k].last_refill]_vars

\* C33: a transaction that timed out is run again as after a conflict, and
\* the points of a request are applied at most once in all: no request has
\* two rows of score_history, and the score of the user is its initial score
\* plus the points of the requests that have a row.
C33_TimeoutAppliesOnce ==
    /\ \A p \in Appliers : Cardinality(RowsOf(p)) <= 1
    /\ score[1] - InitialScore[1] =
          SumOver([p \in Procs |-> IF p \in Appliers /\ RowsOf(p) # {}
                                   THEN req[p].proof.expected_points ELSE 0],
                  Procs)

\* C34: once every score update request is past its cache refresh, none of
\* them having met a failure of the cache, a leaderboard that the cache
\* returns as fresh is the top 10 of the users table as it is now.
C34_CacheConvergesToStore ==
    (/\ \A p \in Requests : pc[p] \in {"respond", "broadcast", "done"}
     /\ \A p \in Requests : ~local[p].downstream
     /\ IsCached(cache, now))
        => cache.top_10 = TopTen(score)

\* the step in which the transaction of p commits
Commits(p) == pc[p] = "txn_commit" /\ "score" \in effects'[p] \ effects[p]

\* C35: the score of a user changes only in the step that commits the
\* transaction of a request of that user, by the points of the request,
\* which are not negative; no score is below zero; the leaderboard reads,
\* the cache operations, the broadcasts and the rejected requests leave
\* every score as it is.
C35_ScoreChangesOnlyByCommit ==
    /\ [](\A u \in Users : score[u] >= 0)
    /\ [][score' # score =>
             \E p \in Requests :
                 /\ Commits(p)
                 /\ req[p].proof.expected_points >= 0
                 /\ score' = [score EXCEPT ![req[p].user] =
                                  @ + req[p].proof.expected_points]]_vars
    /\ [](\A p \in Procs :
             (outcome[p].kind \notin {"pending", "success"} \/ task[p] = "load")
                 => "score" \notin effects[p])

\* a request with negative points and no other fault was rejected, another
\* one was applied, and the leaderboard was loaded, the scores being the
\* initial ones plus the points applied
C35_Witness ==
    /\ req[1].proof = Negative(1, 1)
    /\ outcome[1].kind = "ImplausiblePoints"
    /\ outcome[2].kind = "success"
    /\ outcome[3].kind \in {"hit", "loaded"}
    /\ score[req[2].user] = InitialScore[req[2].user] + req[2].proof.expected_points

\* score_history only grows, by one row at a time, and a row once written
\* stays as it is; each applied request has exactly one row, with its user,
\* its action type and its points
HistoryAppendOnly ==
    /\ [][\/ history' = history
          \/ /\ Len(history') = Len(history) + 1
             /\ SubSeq(history', 1, Len(history)) = history]_vars
    /\ [](\A p \in Requests :
             /\ Cardinality(RowsOf(p)) = (IF "score" \in effects[p] THEN 1 ELSE 0)
             /\ outcome[p].kind = "success" => "score" \in effects[p]
             /\ \A i \in RowsOf(p) :
                   /\ history[i].user_id = req[p].user
                   /\ history[i].action_type = req[p].proof.action_type
                   /\ history[i].points_added = req[p].proof.expected_points)

\* C36: score_history is append-only: every accepted update appends exactly
\* one row carrying the user id, the action type, the points and the nonce
\* of the proof of the request, and no row is changed or removed.
C36_HistoryAppendOnlyWithNonce ==
    /\ HistoryAppendOnly
    /\ [](\A p \in Requests :
             \A i \in RowsOf(p) :
                 /\ "nonce" \in DOMAIN history[i]
                 /\ history[i].nonce = req[p].proof.nonce)

\* what is wrong with a proof, each on its own
IsStale(p) == ~IsTimestampFresh(req[p].proof.timestamp, now)
BadlySigned(p) == req[p].proof.client_signature # GenerateHmac(req[p].proof, Secret(req[p].user))
IsReplay(p) == IsNonceUsed(req[p].proof.nonce, req[p].user)
OutOfRange(p) == ~ValidateActionData(req[p].proof)

\* C37: Verify checks freshness, then the signature, then the nonce, then
\* the points, and answers with the reason of the first check that fails: a
\* stale proof is answered StaleProof whatever else is wrong with it, a fresh
\* proof with a bad signature InvalidSignature whether its nonce is used or
\* not, a fresh, well signed proof whose nonce is used ReplayedProof even if
\* its points are out of range.
C37_FirstFailingCheck ==
    [][\A p \in Verifiers :
          AnsweredNow(p) =>
              outcome'[p].kind =
                  IF IsStale(p) THEN "StaleProof"
                  ELSE IF BadlySigned(p) THEN "InvalidSignature"
                  ELSE IF IsReplay(p) THEN "ReplayedProof"
                  ELSE IF OutOfRange(p) THEN "ImplausiblePoints"
                  ELSE "Accepted"]_vars

\* a well signed proof with points out of range, whose nonce another caller
\* had used, was answered ReplayedProof, and when submitted first
\* ImplausiblePoints
C37_Witness ==
    \E p, q \in Verifiers :
        /\ OutOfRange(p) /\ ~BadlySigned(p) /\ ~IsStale(p)
        /\ outcome[p].kind = "ReplayedProof"
        /\ past[p].last.kind = "ImplausiblePoints"
        /\ outcome[q].kind = "Accepted"

\* no two rows of the users table with one email
EmailsUnique == \A u, v \in prisma.user : u.email = v.email => u = v

\* the email of the request was found by emailExists, or the insert failed
\* on the unique constraint because a concurrent request had inserted it
EmailTaken(p) ==
    \/ local[p].emailAlreadyExists
    \/ \E i \in 1..Len(local[p].raised) :
          /\ local[p].raised[i].operation = "create_user"
          /\ local[p].raised[i].original = UniqueConstraintFailed

\* a request whose email was taken is never answered 201
TakenEmailNeverCreated ==
    \A p \in ApiCalls("createUser") :
        Answered(p) /\ EmailTaken(p) =>
            outcome[p].status # HttpCreated /\ p \notin Creators

\* C38: no two users share an email, and a POST /users whose email is taken,
\* the loser of two concurrent creates with one email included, is answered
\* 400 'Email already exists' and never 201.
C38_TakenEmailAnswered400 ==
    /\ EmailsUnique
    /\ TakenEmailNeverCreated
    /\ \A p \in ApiCalls("createUser") :
          Answered(p) /\ EmailTaken(p) =>
              Answer(p, HttpBadRequest, EMAIL_ALREADY_EXISTS)

\* the place of a received message in the order of the broadcasts
PublishedAt(event) == CHOOSE i \in 1..Len(events) : events[i] = event

\* C20: on every connection the messages arrive in the order in which the
\* broadcasts were published: of two messages of one connection the one
\* received first was published first, whichever requests published them.
C20_FifoPerConnection ==
    \A c \in Connections :
        LET r == hub[c].received
        IN  \A i, j \in 1..Len(r) :
                i < j => PublishedAt(r[i]) < PublishedAt(r[j])

\* two requests were in flight together, the later-numbered one published
\* first, one connection received both broadcasts and another connection,
\* opened later, only the second
C20_Witness ==
    /\ Len(events) >= 2
    /\ events[1].request[1] > events[2].request[1]
    /\ \E c, d \in Connections :
          /\ hub[c].received = <<events[1], events[2]>>
          /\ hub[d].received = <<events[2]>>

\* the place of a user in the list of all users by score descending and
\* then by id ascending
Position(sc, u) ==
    LET all == Ordered(sc, DOMAIN sc)
    IN  CHOOSE i \in 1..Len(all) : all[i].id = u

====
